---------------------------- MODULE Spec2Model ----------------------------
(***************************************************************************)
(* State-machine model of the capture engine (class AudioIO) and of the    *)
(* audio loop (class AudioLoopController) of MAMBO Whistle.                 *)
(*                                                                         *)
(* AudioIO.start() and AudioIO.destroy() are async functions: each is one  *)
(* process whose steps end at the awaits where the JavaScript event loop   *)
(* can run something else.  Every other method is synchronous and is one   *)
(* action.  The browser (getUserMedia, audioWorklet.addModule, the audio   *)
(* callbacks, the worklet's message port) is the environment.              *)
(***************************************************************************)
EXTENDS Integers, Sequences, FiniteSets, TLC

(***************************************************************************)
(* Bounds of the model.                                                    *)
(***************************************************************************)
MaxCalls == 2
    \* start() invocations that may be in progress at the same time
MaxStreams == 2
    \* microphone streams whose tracks may be live at the same time
MaxNodes == 2
    \* processor nodes that may be live at the same time
MaxInFlight == 1
    \* worklet messages posted to the port and not yet handled

Null == 0
StreamIds == 1..MaxStreams
NodeIds == 1..MaxNodes

(***************************************************************************)
(* Values of the configuration fields the model draws from: the defaults   *)
(* of the constructor and one value on each side of what _validateConfig   *)
(* recommends.                                                             *)
(***************************************************************************)
DefaultSampleRate == 44100
DefaultBufferSize == 2048
DefaultWorkletBufferSize == 128
MinSampleRate == 8000
MaxSampleRate == 96000
SampleRates == {MinSampleRate - 1, DefaultSampleRate, MaxSampleRate + 1}
BufferSizes == {1000, DefaultBufferSize}
ScriptBufferSizes == {256, 512, 1024, 2048, 4096, 8192, 16384}
WorkletBufferSizes == {128, 256, 512, 1024}

\* What the browser offers: everything, no AudioWorkletNode, no
\* navigator.mediaDevices, or no AudioContext class at all.
Runtimes == {"full", "noWorklet", "noMediaDevices", "noAudioContext"}

\* The rejections of getUserMedia that _requestMicrophone tells apart.
MicErrors == {"NotAllowedError", "NotFoundError", "NotReadableError",
              "OverconstrainedError"}

\* The messages of the worklet that _handleWorkletMessage tells apart.
WorkletMessages == {"pitch-frame", "pitch-detected", "error", "no-pitch"}

VARIABLES
    \* ---- fields of AudioIO
    audioContext,       \* Null or 1 (an open AudioContext)
    stream,             \* Null or the id of the MediaStream held
    sourceNode,         \* Null or the id of the stream the source node reads
    processorNode,      \* Null or the id of the processor node held
    isRunning,
    isInitialized,
    mode,               \* "null", "worklet" or "script-processor"
    config,             \* [sampleRate, bufferSize, workletBufferSize, useWorklet]
    onFrameCallback,    \* TRUE when a callback is registered
    onPitchDetectedCallback,
    onWorkletPitchFrameCallback,
    onErrorCallback,
    onStateChangeCallback,
    \* ---- the browser
    runtime,            \* one of Runtimes, fixed for a run
    tracks,             \* ids of the streams whose tracks are live (not stopped)
    liveNodes,          \* node id -> "free", "worklet" or "script": a live node
                        \* is connected and has its handler installed
    portQueue,          \* worklet messages posted and not yet handled
    \* ---- control
    starting,           \* await -> number of start() invocations suspended there
    destroyPc,          \* "idle" or "close": destroy() awaiting close()
    stoppedWhileStarting, \* history: stop() was called while the last
                        \* start() was in progress
    audioCallback,      \* "idle", or "inConsumer" while onaudioprocess is inside
                        \* its synchronous call of the frame callback
    evt,                \* what the last step did that its caller or a
                        \* registered callback can observe (a set of tokens)
    \* ---- fields of AudioLoopController
    loopIsRunning,      \* this.isRunning of the controller
    latencyMeasurements,
    onStatsUpdate,      \* TRUE when the stats callback is set
    workletPitchFrameLogged,
    services,           \* which optional collaborators the constructor got
    \* ---- the collaborators of the controller
    activeEngine,       \* what synthManager.getActiveEngine() returns
    lastHandler,        \* the last handler invoked, its frame and the calls
                        \* it made on the collaborators, in order
    lastStats,          \* what getLatencyStats() returned, when the last call
                        \* on the controller was that one
    \* ---- the onset detector
    onset,              \* [state, heldMs, last]
    heard,              \* the loudness readings taken so far
    trail,              \* the states visited so far, each change once
    \* ---- the pitch corrector
    lockedNoteSemitone, \* the note locked on, or NoNote
    prevLocked,         \* the lock before the last step
    scaleType,
    rootKey,
    pitchInput,         \* the estimate the last step corrected, if it did
    \* ---- SynthManager, its two engines and the store's synth slice
    synthEngines,       \* which engines the constructor was given
    synthActive,        \* the engine activeEngine refers to
    storeSynth,         \* store.getState().synth
    engineTune,         \* the auto-tune parameters the continuous engine holds
    engineInstrument,   \* the instrument each engine plays
    engineEffects,      \* the reverb and delay last set on each engine
    synthReady,         \* init() has run
    frameTune,          \* the parameters the last frame was processed with
    synthCall,          \* the last call on the manager and how it ended
    \* ---- a call of getNearestScaleNote()
    quantizeInput,      \* [cents, root, scale]: the arguments
    quantized,          \* what it returned, or NotQuantized before it has
    \* ---- AppContainer
    registry,           \* services: per name, singleton and what the factory asks for
    factoryCalls,       \* per name, how often its factory has been invoked
    instance,           \* per name, config.instance: NullInstance or an instance
    creating,           \* the names being created
    lastGet,            \* the last get(): its name, how it ended, what it returned
    \* ---- AudioService
    svc,                \* [isReady, isPlaying] of this.state
    initPromise,        \* NoPromise or the run of _doInitialize() it is the promise of
    initRuns,           \* per run of _doInitialize(): where it stands
    starts,             \* the start() calls waiting for Tone.start() and app.start()
    appStartCalls,      \* how often window.app.start() has been called
    lastSvc,            \* the last call on the service and what it gave
    \* ---- ConfigManager
    managerConfig,      \* this._config: NotLoaded or the configuration stored
    lastLoad            \* the last load(): how it ended and what it had merged

ioFields == <<audioContext, stream, sourceNode, processorNode, isRunning,
              isInitialized, mode>>
ioCallbacks == <<onFrameCallback, onPitchDetectedCallback,
                 onWorkletPitchFrameCallback, onErrorCallback,
                 onStateChangeCallback>>
ioBrowser == <<runtime, tracks, liveNodes, portQueue>>
ioControl == <<starting, destroyPc, stoppedWhileStarting, audioCallback>>
ioVars == <<ioFields, config, ioCallbacks, ioBrowser, ioControl, evt>>
loopVars == <<loopIsRunning, latencyMeasurements, onStatsUpdate,
              workletPitchFrameLogged, services, activeEngine, lastHandler,
              lastStats>>
onsetVars == <<onset, heard, trail>>
correctorVars == <<lockedNoteSemitone, prevLocked, scaleType, rootKey, pitchInput>>
dspVars == <<onsetVars, correctorVars>>
coreVars == <<ioVars, loopVars, dspVars>>
synthVars == <<synthEngines, synthActive, storeSynth, engineTune,
               engineInstrument, engineEffects, synthReady, frameTune,
               synthCall>>
quantVars == <<quantizeInput, quantized>>
containerVars == <<registry, factoryCalls, instance, creating, lastGet>>
serviceVars == <<svc, initPromise, initRuns, starts, appStartCalls, lastSvc>>
managerVars == <<managerConfig, lastLoad>>
appVars == <<synthVars, quantVars, containerVars, serviceVars, managerVars>>
exceptSynth == <<coreVars, quantVars, containerVars, serviceVars, managerVars>>
exceptQuant == <<coreVars, synthVars, containerVars, serviceVars, managerVars>>
exceptContainer == <<coreVars, synthVars, quantVars, serviceVars, managerVars>>
exceptService == <<coreVars, synthVars, quantVars, containerVars, managerVars>>
exceptManager == <<coreVars, synthVars, quantVars, containerVars, serviceVars>>
vars == <<coreVars, appVars>>


(***************************************************************************)
(* Helpers of AudioIO.                                                     *)
(***************************************************************************)

\* _supportsAudioWorklet(), evaluated on a non-null audioContext.
SupportsAudioWorklet == runtime = "full"

\* A sample-rate check that has lost its upper limit.
ValidSampleRateMutant(cfg) == cfg.sampleRate >= MinSampleRate

\* The three checks of _validateConfig; each failed check logs one warning.
ValidSampleRate(cfg) ==
    cfg.sampleRate >= MinSampleRate /\ cfg.sampleRate <= MaxSampleRate

ValidBufferSize(cfg) == cfg.bufferSize \in ScriptBufferSizes

ValidWorkletBufferSize(cfg) == cfg.workletBufferSize \in WorkletBufferSizes

ValidConfig(cfg) ==
    ValidSampleRate(cfg) /\ ValidBufferSize(cfg) /\ ValidWorkletBufferSize(cfg)

\* _validateConfig(): what it does with cfg.  It only warns.
ValidateConfig(cfg) ==
    (IF ValidSampleRate(cfg) THEN {} ELSE {"warn:sampleRate"})
        \cup (IF ValidBufferSize(cfg) THEN {} ELSE {"warn:bufferSize"})
        \cup (IF ValidWorkletBufferSize(cfg) THEN {} ELSE {"warn:workletBufferSize"})

\* _notifyError(type, error): the callback, when registered, is called inside
\* try/catch; threw tells whether the callback itself throws.
NotifyError(type, threw) ==
    IF onErrorCallback
    THEN {"onError:" \o type} \cup (IF threw THEN {"onError:threw-caught"} ELSE {})
    ELSE {}

\* A notification without try/catch: what the callback throws goes on to the
\* caller of start() or stop().
NotifyStateChangeMutant(state, threw) ==
    IF onStateChangeCallback
    THEN {"onStateChange:" \o state}
             \cup (IF threw
                   THEN {IF state = "started" THEN "start:rejected"
                                              ELSE "stop:threw"}
                   ELSE {})
    ELSE {}

\* _notifyStateChange(state, info), likewise.
NotifyStateChange(state, threw) ==
    IF onStateChangeCallback
    THEN {"onStateChange:" \o state}
             \cup (IF threw THEN {"onStateChange:threw-caught"} ELSE {})
    ELSE {}

\* The ids the browser may give a new stream or node: the smallest one that is
\* neither live nor still referenced.
FreeStreams == {s \in StreamIds : s \notin tracks /\ s # stream /\ s # sourceNode}

NewStream == CHOOSE s \in FreeStreams : \A t \in FreeStreams : s <= t

FreeNodes == {n \in NodeIds : liveNodes[n] = "free" /\ n # processorNode}

NewNode == CHOOSE n \in FreeNodes : \A m \in FreeNodes : n <= m

\* JavaScript runs one thing at a time on the main thread: nothing else runs
\* there while onaudioprocess is inside the frame callback.
MainThreadFree == audioCallback = "idle"

(***************************************************************************)
(* start(): lines 207-232.  An invocation keeps nothing of its own between *)
(* its awaits (what it obtains goes straight into the fields), so the      *)
(* invocations in progress are counted per await: starting[a] is the       *)
(* number of invocations suspended at await a.                             *)
(***************************************************************************)
StartAwaits == {"ctx", "mic", "micRetry", "module"}

RECURSIVE SumOver(_, _)
SumOver(f, S) ==
    IF S = {} THEN 0
    ELSE LET x == CHOOSE y \in S : TRUE IN f[x] + SumOver(f, S \ {x})

StartsInProgress == SumOver(starting, StartAwaits)

\* An invocation reaches await a, leaves await a, or goes from a to b.
Enter(a) == [starting EXCEPT ![a] = @ + 1]

Leave(a) == [starting EXCEPT ![a] = @ - 1]

Move(a, b) == [starting EXCEPT ![a] = @ - 1, ![b] = @ + 1]

\* The catch block of start(): notify ('start', error) and rethrow.
StartFails(cause, tokens, threw) ==
    evt' = tokens \cup {"start:rejected", cause} \cup NotifyError("start", threw)

\* The tail of the try block: isRunning, isInitialized, notify 'started'.
StartSucceeds(tokens, threw) ==
    /\ isRunning' = TRUE
    /\ isInitialized' = TRUE
    /\ evt' = tokens \cup {"start:resolved"} \cup NotifyStateChange("started", threw)

\* A start() that has lost its early return.
StartGuardMutant == TRUE

\* The guard that lets start() proceed.
StartGuard == ~isRunning

\* A call of start(): the early return when running, else
\* _initializeAudioContext() up to the first await.
StartCall ==
    /\ MainThreadFree
    /\ StartsInProgress < MaxCalls
    /\ IF ~StartGuard
       THEN /\ evt' = {"start:called", "start:returned", "warn:already-running"}
            /\ UNCHANGED <<ioFields, starting>>
       ELSE IF runtime = "noAudioContext"
       THEN /\ \E threw \in BOOLEAN :
                 StartFails("cause:no-AudioContext", {"start:called"}, threw)
            /\ UNCHANGED <<ioFields, starting>>
       ELSE /\ audioContext' = 1
            /\ starting' = Enter("ctx")
            /\ evt' = {"start:called"}
            /\ UNCHANGED <<stream, sourceNode, processorNode, isRunning,
                           isInitialized, mode>>
    /\ stoppedWhileStarting' = (StartsInProgress > 0 /\ stoppedWhileStarting)
    /\ UNCHANGED <<config, ioCallbacks, ioBrowser, destroyPc, audioCallback>>
    /\ UNCHANGED <<loopVars, dspVars, appVars>>

\* After the audio context: _requestMicrophone() up to await getUserMedia.
StartRequestMicrophone ==
    /\ MainThreadFree
    /\ starting["ctx"] > 0
    /\ IF runtime = "noMediaDevices"
       THEN /\ \E threw \in BOOLEAN :
                 StartFails("cause:no-mediaDevices", {}, threw)
            /\ starting' = Leave("ctx")
       ELSE /\ starting' = Move("ctx", "mic")
            /\ evt' = {"getUserMedia:requested"}
    /\ UNCHANGED <<ioFields, config, ioCallbacks, ioBrowser, destroyPc,
                   stoppedWhileStarting, audioCallback>>
    /\ UNCHANGED <<loopVars, dspVars, appVars>>

\* A choice of the mode that does not ask what the browser supports.
ChooseModeMutant ==
    IF config.useWorklet THEN "worklet" ELSE "script-processor"

\* The mode start() chooses (lines 216-217).
ChooseMode == IF config.useWorklet /\ SupportsAudioWorklet
              THEN "worklet" ELSE "script-processor"

\* getUserMedia, asked at await a, gave stream s: the rest of
\* _requestMicrophone(), the choice of the mode, and the set-up of that mode
\* up to its await.  _setupScriptProcessor() awaits nothing, so in that mode
\* start() completes here.
StartWithStream(a, s, threw) ==
    /\ stream' = s
    /\ tracks' = tracks \cup {s}
    /\ IF audioContext = Null
       THEN \* createMediaStreamSource on null: TypeError
            /\ StartFails("cause:no-context", {"getUserMedia:resolved"}, threw)
            /\ starting' = Leave(a)
            /\ UNCHANGED <<sourceNode, processorNode, isRunning, isInitialized,
                           mode, liveNodes>>
       ELSE /\ sourceNode' = s
            /\ mode' = ChooseMode
            /\ IF ChooseMode = "worklet"
               THEN /\ starting' = Move(a, "module")
                    /\ evt' = {"getUserMedia:resolved", "addModule:requested"}
                    /\ UNCHANGED <<processorNode, isRunning, isInitialized,
                                   liveNodes>>
               ELSE /\ FreeNodes # {}
                    /\ processorNode' = NewNode
                    /\ liveNodes' = [liveNodes EXCEPT ![NewNode] = "script"]
                    /\ starting' = Leave(a)
                    /\ StartSucceeds({"getUserMedia:resolved"}, threw)
    /\ UNCHANGED <<audioContext, config, ioCallbacks, runtime, portQueue,
                   destroyPc, stoppedWhileStarting, audioCallback>>
    /\ UNCHANGED <<loopVars, dspVars, appVars>>

\* getUserMedia resolves (first request).
GetUserMediaResolves ==
    /\ MainThreadFree
    /\ starting["mic"] > 0
    /\ FreeStreams # {}
    /\ \E threw \in BOOLEAN : StartWithStream("mic", NewStream, threw)

\* getUserMedia rejects (first request): OverconstrainedError is retried with
\* { audio: true }, every other error is rethrown with a message of its own.
GetUserMediaRejects(err) ==
    /\ MainThreadFree
    /\ starting["mic"] > 0
    /\ IF err = "OverconstrainedError"
       THEN /\ starting' = Move("mic", "micRetry")
            /\ evt' = {"getUserMedia:retried"}
       ELSE /\ \E threw \in BOOLEAN : StartFails("cause:" \o err, {}, threw)
            /\ starting' = Leave("mic")
    /\ UNCHANGED <<ioFields, config, ioCallbacks, ioBrowser, destroyPc,
                   stoppedWhileStarting, audioCallback>>
    /\ UNCHANGED <<loopVars, dspVars, appVars>>

\* The retried getUserMedia resolves.
GetUserMediaRetryResolves ==
    /\ MainThreadFree
    /\ starting["micRetry"] > 0
    /\ FreeStreams # {}
    /\ \E threw \in BOOLEAN : StartWithStream("micRetry", NewStream, threw)

\* The retried getUserMedia rejects.
GetUserMediaRetryRejects ==
    /\ MainThreadFree
    /\ starting["micRetry"] > 0
    /\ \E threw \in BOOLEAN : StartFails("cause:OverconstrainedError", {}, threw)
    /\ starting' = Leave("micRetry")
    /\ UNCHANGED <<ioFields, config, ioCallbacks, ioBrowser, destroyPc,
                   stoppedWhileStarting, audioCallback>>
    /\ UNCHANGED <<loopVars, dspVars, appVars>>

\* audioWorklet.addModule resolves: the rest of _setupAudioWorklet() and of
\* start().
AddModuleResolves ==
    /\ MainThreadFree
    /\ starting["module"] > 0
    /\ starting' = Leave("module")
    /\ IF audioContext = Null
       THEN \* new AudioWorkletNode(null, ...): TypeError
            /\ \E threw \in BOOLEAN :
                 StartFails("cause:no-context", {"addModule:resolved"}, threw)
            /\ UNCHANGED <<processorNode, isRunning, isInitialized, liveNodes>>
       ELSE /\ FreeNodes # {}
            /\ processorNode' = NewNode
            /\ IF sourceNode = Null
               THEN \* this.sourceNode.connect on null: TypeError
                    /\ \E threw \in BOOLEAN :
                         StartFails("cause:no-source", {"addModule:resolved"},
                                    threw)
                    /\ UNCHANGED <<isRunning, isInitialized, liveNodes>>
               ELSE /\ liveNodes' = [liveNodes EXCEPT ![NewNode] = "worklet"]
                    /\ \E threw \in BOOLEAN :
                         StartSucceeds({"addModule:resolved"}, threw)
    /\ UNCHANGED <<audioContext, stream, sourceNode, mode, config, ioCallbacks,
                   runtime, tracks, portQueue, destroyPc,
                   stoppedWhileStarting, audioCallback>>
    /\ UNCHANGED <<loopVars, dspVars, appVars>>

\* audioWorklet.addModule rejects: start() has no fallback of its own.
AddModuleRejects ==
    /\ MainThreadFree
    /\ starting["module"] > 0
    /\ starting' = Leave("module")
    /\ \E threw \in BOOLEAN : StartFails("cause:addModule", {}, threw)
    /\ UNCHANGED <<ioFields, config, ioCallbacks, ioBrowser, destroyPc,
                   stoppedWhileStarting, audioCallback>>
    /\ UNCHANGED <<loopVars, dspVars, appVars>>

(***************************************************************************)
(* stop() and destroy(): lines 234-265.                                    *)
(***************************************************************************)

\* A stop() that has lost its early return.
StopGuardMutant == TRUE

\* The guard that lets stop() proceed.
StopGuard == isRunning

\* A stop() that disconnects the source node and keeps the reference.
StopBodyMutant ==
    /\ processorNode' = Null
    /\ liveNodes' = IF processorNode # Null
                    THEN [liveNodes EXCEPT ![processorNode] = "free"]
                    ELSE liveNodes
    /\ sourceNode' = sourceNode
    /\ stream' = Null
    /\ tracks' = IF stream # Null THEN tracks \ {stream} ELSE tracks
    /\ isRunning' = FALSE

\* The body of stop() past its guard: disconnect and drop the processor and
\* source nodes, stop the tracks of the stream held, clear isRunning.
StopBody ==
    /\ processorNode' = Null
    /\ liveNodes' = IF processorNode # Null
                    THEN [liveNodes EXCEPT ![processorNode] = "free"]
                    ELSE liveNodes
    /\ sourceNode' = Null
    /\ stream' = Null
    /\ tracks' = IF stream # Null THEN tracks \ {stream} ELSE tracks
    /\ isRunning' = FALSE

\* What a call of stop() lets its caller and the state callback observe.
StopTokens(threw) ==
    IF StopGuard
    THEN {"stop:called", "stop:done"} \cup NotifyStateChange("stopped", threw)
    ELSE {"stop:called", "stop:returned", "warn:not-running"}

\* stop().
Stop ==
    /\ MainThreadFree
    /\ IF StopGuard
       THEN StopBody
       ELSE UNCHANGED <<processorNode, liveNodes, sourceNode, stream, tracks,
                        isRunning>>
    /\ \E threw \in BOOLEAN : evt' = StopTokens(threw)
    /\ stoppedWhileStarting' = (StartsInProgress > 0 \/ stoppedWhileStarting)
    /\ UNCHANGED <<audioContext, isInitialized, mode, config, ioCallbacks,
                   runtime, portQueue, starting, destroyPc, audioCallback>>
    /\ UNCHANGED <<loopVars, dspVars, appVars>>

\* A call of destroy(): stop(), then up to await audioContext.close().
DestroyCall ==
    /\ MainThreadFree
    /\ destroyPc = "idle"
    /\ IF StopGuard
       THEN StopBody
       ELSE UNCHANGED <<processorNode, liveNodes, sourceNode, stream, tracks,
                        isRunning>>
    /\ \E threw \in BOOLEAN : evt' = StopTokens(threw) \cup {"destroy:called"}
    /\ IF audioContext # Null
       THEN /\ destroyPc' = "close"
            /\ UNCHANGED isInitialized
       ELSE /\ isInitialized' = FALSE
            /\ UNCHANGED destroyPc
    /\ stoppedWhileStarting' = (StartsInProgress > 0 \/ stoppedWhileStarting)
    /\ UNCHANGED <<audioContext, mode, config, ioCallbacks, runtime, portQueue,
                   starting, audioCallback>>
    /\ UNCHANGED <<loopVars, dspVars, appVars>>

\* close() resolves: the rest of destroy().
DestroyFinish ==
    /\ MainThreadFree
    /\ destroyPc = "close"
    /\ audioContext' = Null
    /\ isInitialized' = FALSE
    /\ destroyPc' = "idle"
    /\ evt' = {"destroy:resolved"}
    /\ UNCHANGED <<stream, sourceNode, processorNode, isRunning, mode, config,
                   ioCallbacks, ioBrowser, starting, stoppedWhileStarting,
                   audioCallback>>
    /\ UNCHANGED <<loopVars, dspVars, appVars>>

(***************************************************************************)
(* configure() and the registration of the callbacks: lines 158-205.       *)
(***************************************************************************)

\* configure(options): merge, then _validateConfig(), then return this.
ConfigureResult(cfg) == {"configure:returned"} \cup ValidateConfig(cfg)

Configure(field, value) ==
    /\ MainThreadFree
    /\ config' = [config EXCEPT ![field] = value]
    /\ evt' = ConfigureResult(config')
    /\ UNCHANGED <<ioFields, ioCallbacks, ioBrowser, ioControl>>
    /\ UNCHANGED <<loopVars, dspVars, appVars>>

ConfigureSampleRate == \E v \in SampleRates : Configure("sampleRate", v)

ConfigureBufferSize == \E v \in BufferSizes : Configure("bufferSize", v)

ConfigureUseWorklet == \E v \in BOOLEAN : Configure("useWorklet", v)

\* onFrame(cb), onPitchDetected(cb), onWorkletPitchFrame(cb), onError(cb),
\* onStateChange(cb): a TypeError unless cb is a function.
Registered(isFunction, old) == IF isFunction THEN TRUE ELSE old

RegisterTokens(isFunction) ==
    IF isFunction THEN {"register:returned"} ELSE {"register:TypeError"}

OnFrame(isFunction) ==
    /\ MainThreadFree
    /\ onFrameCallback' = Registered(isFunction, onFrameCallback)
    /\ evt' = RegisterTokens(isFunction)
    /\ UNCHANGED <<ioFields, config, onPitchDetectedCallback,
                   onWorkletPitchFrameCallback, onErrorCallback,
                   onStateChangeCallback, ioBrowser, ioControl>>
    /\ UNCHANGED <<loopVars, dspVars, appVars>>

OnPitchDetected(isFunction) ==
    /\ MainThreadFree
    /\ onPitchDetectedCallback' = Registered(isFunction, onPitchDetectedCallback)
    /\ evt' = RegisterTokens(isFunction)
    /\ UNCHANGED <<ioFields, config, onFrameCallback,
                   onWorkletPitchFrameCallback, onErrorCallback,
                   onStateChangeCallback, ioBrowser, ioControl>>
    /\ UNCHANGED <<loopVars, dspVars, appVars>>

OnWorkletPitchFrame(isFunction) ==
    /\ MainThreadFree
    /\ onWorkletPitchFrameCallback' =
           Registered(isFunction, onWorkletPitchFrameCallback)
    /\ evt' = RegisterTokens(isFunction)
    /\ UNCHANGED <<ioFields, config, onFrameCallback, onPitchDetectedCallback,
                   onErrorCallback, onStateChangeCallback, ioBrowser, ioControl>>
    /\ UNCHANGED <<loopVars, dspVars, appVars>>

OnError(isFunction) ==
    /\ MainThreadFree
    /\ onErrorCallback' = Registered(isFunction, onErrorCallback)
    /\ evt' = RegisterTokens(isFunction)
    /\ UNCHANGED <<ioFields, config, onFrameCallback, onPitchDetectedCallback,
                   onWorkletPitchFrameCallback, onStateChangeCallback,
                   ioBrowser, ioControl>>
    /\ UNCHANGED <<loopVars, dspVars, appVars>>

OnStateChange(isFunction) ==
    /\ MainThreadFree
    /\ onStateChangeCallback' = Registered(isFunction, onStateChangeCallback)
    /\ evt' = RegisterTokens(isFunction)
    /\ UNCHANGED <<ioFields, config, onFrameCallback, onPitchDetectedCallback,
                   onWorkletPitchFrameCallback, onErrorCallback, ioBrowser,
                   ioControl>>
    /\ UNCHANGED <<loopVars, dspVars, appVars>>

(***************************************************************************)
(* Frames: the onaudioprocess handler of _setupScriptProcessor() (lines    *)
(* 379-393) and _handleWorkletMessage() (lines 436-481).                   *)
(***************************************************************************)

\* The guard of the onaudioprocess handler (line 380).
AudioProcessGuard == isRunning /\ onFrameCallback

\* The browser calls onaudioprocess of a live script node.  Past its guard
\* the handler calls the frame callback and waits for it to return.
ScriptAudioProcess(n) ==
    /\ MainThreadFree
    /\ liveNodes[n] = "script"
    /\ IF AudioProcessGuard
       THEN /\ audioCallback' = "inConsumer"
            /\ evt' = {"audioprocess", "deliver:onFrame"}
       ELSE /\ evt' = {"audioprocess", "audioprocess:skipped"}
            /\ UNCHANGED audioCallback
    /\ UNCHANGED <<ioFields, config, ioCallbacks, ioBrowser, starting, destroyPc,
                   stoppedWhileStarting>>
    /\ UNCHANGED <<loopVars, dspVars, appVars>>

\* The frame callback returns or throws; the handler catches, notifies
\* ('frame-processing', error), updates its stats and returns.
FrameCallbackReturns(threw) ==
    /\ audioCallback = "inConsumer"
    /\ audioCallback' = "idle"
    /\ evt' = IF threw
              THEN {"onFrame:threw-caught"}
                       \cup NotifyError("frame-processing", FALSE)
              ELSE {"onFrame:returned"}
    /\ UNCHANGED <<ioFields, config, ioCallbacks, ioBrowser, starting, destroyPc,
                   stoppedWhileStarting>>
    /\ UNCHANGED <<loopVars, dspVars, appVars>>

\* The worklet of a live worklet node posts a message to its port and goes
\* on: postMessage never waits for the receiver.
WorkletPosts(m) ==
    /\ \E n \in NodeIds : liveNodes[n] = "worklet"
    /\ Len(portQueue) < MaxInFlight
    /\ portQueue' = Append(portQueue, m)
    /\ evt' = {"worklet:posted"}
    /\ UNCHANGED <<ioFields, config, ioCallbacks, runtime, tracks, liveNodes,
                   ioControl>>
    /\ UNCHANGED <<loopVars, dspVars, appVars>>

\* What _handleWorkletMessage does with a message of type m; threw tells
\* whether the callback it calls throws (nothing here catches it).
HandleWorkletMessage(m, threw) ==
    LET uncaught == IF threw THEN {"uncaught"} ELSE {}
    IN  CASE m = "pitch-detected" ->
                 IF onPitchDetectedCallback
                 THEN {"deliver:onPitchDetected"} \cup uncaught
                 ELSE {"message:no-callback"}
          [] m = "pitch-frame" ->
                 IF onWorkletPitchFrameCallback
                 THEN {"deliver:onWorkletPitchFrame"} \cup uncaught
                 ELSE IF onFrameCallback
                 THEN {"deliver:onFrame", "warn:onFrame-fallback"} \cup uncaught
                 ELSE {"message:no-callback"}
          [] m = "error" -> {"message:error"} \cup NotifyError("worklet", threw)
          [] OTHER -> {"message:logged"}

\* The port delivers the oldest message to port.onmessage.
WorkletMessageArrives ==
    /\ MainThreadFree
    /\ portQueue # <<>>
    /\ portQueue' = Tail(portQueue)
    /\ \E threw \in BOOLEAN : evt' = HandleWorkletMessage(Head(portQueue), threw)
    /\ UNCHANGED <<ioFields, config, ioCallbacks, runtime, tracks, liveNodes,
                   ioControl>>
    /\ UNCHANGED <<loopVars, dspVars, appVars>>

(***************************************************************************)
(* The capture engine as a whole.                                          *)
(***************************************************************************)

\* new AudioIO() (lines 127-156), in a browser of any of the four kinds.
IOInit ==
    /\ audioContext = Null
    /\ stream = Null
    /\ sourceNode = Null
    /\ processorNode = Null
    /\ isRunning = FALSE
    /\ isInitialized = FALSE
    /\ mode = "null"
    /\ config = [sampleRate |-> DefaultSampleRate,
                 bufferSize |-> DefaultBufferSize,
                 workletBufferSize |-> DefaultWorkletBufferSize,
                 useWorklet |-> TRUE]
    /\ onFrameCallback = FALSE
    /\ onPitchDetectedCallback = FALSE
    /\ onWorkletPitchFrameCallback = FALSE
    /\ onErrorCallback = FALSE
    /\ onStateChangeCallback = FALSE
    /\ runtime \in Runtimes
    /\ tracks = {}
    /\ liveNodes = [n \in NodeIds |-> "free"]
    /\ portQueue = <<>>
    /\ starting = [a \in StartAwaits |-> 0]
    /\ destroyPc = "idle"
    /\ stoppedWhileStarting = FALSE
    /\ audioCallback = "idle"
    /\ evt = {}

(***************************************************************************)
(* AudioLoopController.                                                    *)
(***************************************************************************)
LatencyWindow == 100
    \* line 67: at most this many latency samples are kept
MaxTimedFrames == 2
    \* frames carrying both timestamps that the model delivers per start()

\* A pitch frame: who it is, when it was captured (0: no captureTime), and
\* whether expressiveFeatures.process() produced it.
PitchFrames == [id : {1, 2}, captureTime : {0, 1000}, enriched : {FALSE}]

NoFrame == [id |-> 0, captureTime |-> 0, enriched |-> FALSE]

ReceiveTimes == {0, 1020}

\* An engine has processPitchFrame ("frame"), only processPitch ("legacy"),
\* or neither ("bare"); "none" is no active engine.
Engines == {"none", "frame", "legacy", "bare"}

Services == [visualizerManager : BOOLEAN, pitchDetector : BOOLEAN,
             expressiveFeatures : BOOLEAN,
             aiHarmonizer : {"none", "disabled", "enabled"}]

HandlerNames == {"handleWorkletPitchFrame", "onAudioProcess", "onPitchDetected"}

Call(name, f) == [call |-> name, frame |-> f]

Handled(name, f, calls) == [name |-> name, frame |-> f, calls |-> calls]

NoHandler == Handled("none", NoFrame, <<>>)

\* No result of getLatencyStats() at hand.
NoStats == [note |-> "not called"]

\* new AudioLoopController(services) (lines 19-42).
LoopInit ==
    /\ loopIsRunning = FALSE
    /\ latencyMeasurements = <<>>
    /\ onStatsUpdate = FALSE
    /\ workletPitchFrameLogged = FALSE
    /\ services \in Services
    /\ activeEngine \in Engines
    /\ lastHandler = NoHandler
    /\ lastStats = NoStats

\* start() (lines 44-47).
LoopStart ==
    /\ loopIsRunning' = TRUE
    /\ latencyMeasurements' = <<>>
    /\ lastHandler' = NoHandler
    /\ UNCHANGED <<onStatsUpdate, workletPitchFrameLogged, services,
                   activeEngine>>
    /\ lastStats' = NoStats
    /\ UNCHANGED <<ioVars, dspVars, appVars>>

\* stop() (lines 49-51).
LoopStop ==
    /\ loopIsRunning' = FALSE
    /\ lastHandler' = NoHandler
    /\ UNCHANGED <<latencyMeasurements, onStatsUpdate, workletPitchFrameLogged,
                   services, activeEngine>>
    /\ lastStats' = NoStats
    /\ UNCHANGED <<ioVars, dspVars, appVars>>

\* The consumer sets onStatsUpdate (line 39 declares the field).
SetOnStatsUpdate ==
    /\ onStatsUpdate' = TRUE
    /\ lastHandler' = NoHandler
    /\ UNCHANGED <<loopIsRunning, latencyMeasurements, workletPitchFrameLogged,
                   services, activeEngine>>
    /\ lastStats' = NoStats
    /\ UNCHANGED <<ioVars, dspVars, appVars>>

\* The synth manager switches its active engine.
ActiveEngineChanges(e) ==
    /\ activeEngine' = e
    /\ lastHandler' = NoHandler
    /\ UNCHANGED <<loopIsRunning, latencyMeasurements, onStatsUpdate,
                   workletPitchFrameLogged, services>>
    /\ lastStats' = NoStats
    /\ UNCHANGED <<ioVars, dspVars, appVars>>

\* A latency window that drops its newest sample when it is full.
RecordLatencyMutant(samples, f, receiveTime) ==
    IF receiveTime # 0 /\ f.captureTime # 0
    THEN LET pushed == Append(samples, receiveTime - f.captureTime)
         IN  IF Len(pushed) > LatencyWindow
             THEN SubSeq(pushed, 1, Len(pushed) - 1) ELSE pushed
    ELSE samples

\* Lines 63-70: the latency sample of a frame that has both timestamps is
\* appended, and the oldest one dropped past the window.
RecordLatency(samples, f, receiveTime) ==
    IF receiveTime # 0 /\ f.captureTime # 0
    THEN LET pushed == Append(samples, receiveTime - f.captureTime)
         IN  IF Len(pushed) > LatencyWindow THEN Tail(pushed) ELSE pushed
    ELSE samples

\* A synthesis step that goes on to processPitch after processPitchFrame.
WorkletSynthesisMutant(f) ==
    <<Call("getActiveEngine", NoFrame)>>
        \o (CASE activeEngine = "frame" ->
                     <<Call("processPitchFrame", f), Call("processPitch", f)>>
              [] activeEngine = "legacy" -> <<Call("processPitch", f)>>
              [] OTHER -> <<>>)

\* Lines 82-90: the synthesis step of handleWorkletPitchFrame.
WorkletSynthesis(f) ==
    <<Call("getActiveEngine", NoFrame)>>
        \o (CASE activeEngine = "frame" -> <<Call("processPitchFrame", f)>>
              [] activeEngine = "legacy" -> <<Call("processPitch", f)>>
              [] OTHER -> <<>>)

\* The visualization step (lines 93-95, 156-158, 204-206).
Visualization(f) ==
    IF services.visualizerManager THEN <<Call("update", f)>> ELSE <<>>

\* The stats step (lines 102-109, 161-168, 208-215).
StatsUpdate(f) ==
    IF onStatsUpdate
    THEN <<Call("getMetrics", NoFrame), Call("onStatsUpdate", f)>>
    ELSE <<>>

\* The calls of handleWorkletPitchFrame past its guard, in order.
WorkletFrameCalls(f) ==
    <<Call("startProcessing", NoFrame)>>
        \o WorkletSynthesis(f)
        \o Visualization(f)
        \o <<Call("endProcessing", NoFrame), Call("updateFPS", NoFrame)>>
        \o StatsUpdate(f)

\* Handlers that have lost their early return.
LoopGuardMutant == TRUE

\* The guard of the three handlers (lines 60, 117, 180).
LoopGuard == loopIsRunning

\* handleWorkletPitchFrame(pitchFrame, timestamp, receiveTime) (lines 59-110).
HandleWorkletPitchFrame(f, receiveTime) ==
    /\ IF LoopGuard
       THEN /\ latencyMeasurements' =
                   RecordLatency(latencyMeasurements, f, receiveTime)
            /\ workletPitchFrameLogged' = TRUE
            /\ lastHandler' =
                   Handled("handleWorkletPitchFrame", f, WorkletFrameCalls(f))
       ELSE /\ lastHandler' = Handled("handleWorkletPitchFrame", f, <<>>)
            /\ UNCHANGED <<latencyMeasurements, workletPitchFrameLogged>>
    /\ UNCHANGED <<loopIsRunning, onStatsUpdate, services, activeEngine>>
    /\ lastStats' = NoStats
    /\ UNCHANGED <<ioVars, dspVars, appVars>>

\* The environment hands a frame of the worklet to the controller.
WorkletPitchFrameArrives ==
    \E f \in PitchFrames, r \in ReceiveTimes :
        /\ Len(latencyMeasurements) < MaxTimedFrames
        /\ HandleWorkletPitchFrame(f, r)

\* Lines 146-153 and 195-202: the synthesis step of onAudioProcess and of
\* onPitchDetected.  Without processPitchFrame the engine's processPitch is
\* called unchecked: on an engine that has neither, that is a TypeError.
BufferSynthesis(pitchInfo, pitchFrame) ==
    <<Call("getActiveEngine", NoFrame)>>
        \o (CASE activeEngine = "frame" -> <<Call("processPitchFrame", pitchFrame)>>
              [] activeEngine = "legacy" -> <<Call("processPitch", pitchInfo)>>
              [] activeEngine = "bare" -> <<Call("TypeError", NoFrame)>>
              [] OTHER -> <<>>)

\* What follows the synthesis step unless it threw.
AfterSynthesis(synthesis, rest) ==
    IF synthesis # <<>> /\ synthesis[Len(synthesis)].call = "TypeError"
    THEN synthesis
    ELSE synthesis \o rest

\* expressiveFeatures.process() gives the enriched frame.
Enrich(f) == [f EXCEPT !.enriched = TRUE]

\* Lines 141-143 and 191-193.
Harmonizer(f) ==
    IF services.aiHarmonizer = "enabled"
    THEN <<Call("processFrame", f)>> ELSE <<>>

\* An onAudioProcess that has lost its check of pitchInfo: it goes through
\* the synthesis, visualization and stats steps with a null pitch too.
AudioProcessCallsMutant(pitchInfo, featuresThrow) ==
    LET detected == IF services.pitchDetector THEN pitchInfo ELSE NoFrame
        pitchFrame == IF services.expressiveFeatures /\ ~featuresThrow
                      THEN Enrich(detected) ELSE detected
    IN  AfterSynthesis(
            <<Call("startProcessing", NoFrame)>>
                \o (IF services.pitchDetector
                    THEN <<Call("detect", NoFrame)>> ELSE <<>>)
                \o (IF services.expressiveFeatures
                    THEN <<Call("process", detected)>> ELSE <<>>)
                \o Harmonizer(pitchFrame)
                \o BufferSynthesis(detected, pitchFrame),
            Visualization(pitchFrame) \o StatsUpdate(pitchFrame)
                \o <<Call("endProcessing", NoFrame), Call("updateFPS", NoFrame)>>)

\* The calls of onAudioProcess past its guard, in order: pitchInfo is what
\* pitchDetector.detect() returns (NoFrame: null), featuresThrow whether
\* expressiveFeatures.process() throws.
AudioProcessCalls(pitchInfo, featuresThrow) ==
    LET detected == IF services.pitchDetector THEN pitchInfo ELSE NoFrame
        pitchFrame == IF services.expressiveFeatures /\ ~featuresThrow
                      THEN Enrich(detected) ELSE detected
        head == <<Call("startProcessing", NoFrame)>>
                    \o (IF services.pitchDetector
                        THEN <<Call("detect", NoFrame)>> ELSE <<>>)
        tail == <<Call("endProcessing", NoFrame), Call("updateFPS", NoFrame)>>
    IN  IF detected = NoFrame
        THEN head \o tail
        ELSE AfterSynthesis(
                 head
                     \o (IF services.expressiveFeatures
                         THEN <<Call("process", detected)>> ELSE <<>>)
                     \o Harmonizer(pitchFrame)
                     \o BufferSynthesis(detected, pitchFrame),
                 Visualization(pitchFrame) \o StatsUpdate(pitchFrame) \o tail)

\* onAudioProcess(audioBuffer) (lines 116-173).
OnAudioProcess(pitchInfo, featuresThrow) ==
    /\ lastHandler' =
           Handled("onAudioProcess", pitchInfo,
                   IF LoopGuard THEN AudioProcessCalls(pitchInfo, featuresThrow)
                   ELSE <<>>)
    /\ UNCHANGED <<loopIsRunning, latencyMeasurements, onStatsUpdate,
                   workletPitchFrameLogged, services, activeEngine>>
    /\ lastStats' = NoStats
    /\ UNCHANGED <<ioVars, dspVars, appVars>>

\* The environment hands an audio buffer of the script processor to the
\* controller.
AudioBufferArrives ==
    \E pitchInfo \in PitchFrames \cup {NoFrame}, featuresThrow \in BOOLEAN :
        OnAudioProcess(pitchInfo, featuresThrow)

\* The calls of onPitchDetected past its guard, in order.
PitchDetectedCalls(pitchInfo) ==
    AfterSynthesis(
        <<Call("startProcessing", NoFrame)>>
            \o Harmonizer(pitchInfo)
            \o BufferSynthesis(pitchInfo, pitchInfo),
        Visualization(pitchInfo) \o StatsUpdate(pitchInfo)
            \o <<Call("endProcessing", NoFrame), Call("updateFPS", NoFrame)>>)

\* onPitchDetected(pitchInfo) (lines 179-219).
OnPitchDetectedInfo(pitchInfo) ==
    /\ lastHandler' =
           Handled("onPitchDetected", pitchInfo,
                   IF LoopGuard THEN PitchDetectedCalls(pitchInfo) ELSE <<>>)
    /\ UNCHANGED <<loopIsRunning, latencyMeasurements, onStatsUpdate,
                   workletPitchFrameLogged, services, activeEngine>>
    /\ lastStats' = NoStats
    /\ UNCHANGED <<ioVars, dspVars, appVars>>

\* The environment hands a detected pitch to the controller.
PitchDetectedArrives == \E pitchInfo \in PitchFrames : OnPitchDetectedInfo(pitchInfo)

LoopNext ==
    \/ LoopStart
    \/ LoopStop
    \/ SetOnStatsUpdate
    \/ \E e \in Engines : ActiveEngineChanges(e)
    \/ WorkletPitchFrameArrives
    \/ AudioBufferArrives
    \/ PitchDetectedArrives

(***************************************************************************)
(* OnsetDetector.  Its implementation is not among the sources; only its   *)
(* configuration is (OnsetDetectorConfig and its defaults in               *)
(* src/src/lib/audio/AudioService.ts).  The machine below is the           *)
(* transition table of the specification, section 4.4, taken one loudness  *)
(* reading per frame: a row fires when its condition holds and the state   *)
(* stays as it is when no row does.                                        *)
(***************************************************************************)
EnergyThreshold == 3
SilenceThreshold == -50
AttackDuration == 50
MinSilenceDuration == 100

\* The time between two loudness readings, in ms, and the longest run of
\* readings followed.
FrameMs == 50
MaxOnsetFrames == 7

\* One loudness (dB) below silenceThreshold, one between the thresholds and
\* one above energyThreshold.
LoudnessLevels ==
    {SilenceThreshold - 10, SilenceThreshold + 26, EnergyThreshold + 7}

OnsetStates == {"silence", "attack", "sustain", "release"}

\* Where a loudness lies relative to the two thresholds.
Band(loudness) ==
    IF loudness > EnergyThreshold THEN "above"
    ELSE IF loudness < SilenceThreshold THEN "below"
    ELSE "between"

\* The detector: its state, for how long (ms) the duration guard of the state
\* has held, and the band of the last reading ("none" before the first).
OnsetStart == [state |-> "silence", heldMs |-> 0, last |-> "none"]

\* A detector that never takes a renewed crossing for an attack.
ReAttackMutant(d, band) == FALSE

\* any state -> attack: the loudness re-crosses energyThreshold before
\* silence is reached.
ReAttack(d, band) ==
    /\ d.state # "silence"
    /\ band = "above"
    /\ d.last # "above"

\* attack -> sustain: the attack duration has elapsed without the loudness
\* dropping below the threshold.
AttackComplete(d, band) ==
    /\ band = "above"
    /\ d.heldMs + FrameMs >= AttackDuration

\* A release that is entered only between the two thresholds.
ReleasedMutant(d, band) == band = "between"

\* sustain -> release: the loudness drops below energyThreshold; silence is
\* not reached before the loudness has stayed below silenceThreshold.
Released(d, band) == band # "above"

\* A silence test that compares the loudness the wrong way round.
SilenceCompleteMutant(d, band) ==
    /\ band = "above"
    /\ d.last = "below"
    /\ d.heldMs + FrameMs >= MinSilenceDuration

\* release -> silence: the loudness has stayed below silenceThreshold for
\* minSilenceDuration.
SilenceComplete(d, band) ==
    /\ band = "below"
    /\ d.last = "below"
    /\ d.heldMs + FrameMs >= MinSilenceDuration

\* One reading of the loudness.
OnsetUpdate(d, loudness) ==
    LET band == Band(loudness)
        To(state, heldMs) == [state |-> state, heldMs |-> heldMs, last |-> band]
        held == d.heldMs + FrameMs
    IN  IF ReAttack(d, band) THEN To("attack", 0)
        ELSE CASE d.state = "silence" ->
                    IF band = "above" THEN To("attack", 0)
                    ELSE To("silence", 0)
               [] d.state = "attack" ->
                    IF AttackComplete(d, band) THEN To("sustain", 0)
                    ELSE IF band = "above" THEN To("attack", held)
                    ELSE To("attack", 0)
               [] d.state = "sustain" ->
                    IF Released(d, band) THEN To("release", 0)
                    ELSE To("sustain", 0)
               [] d.state = "release" ->
                    IF SilenceComplete(d, band) THEN To("silence", 0)
                    ELSE IF band = "below" /\ d.last = "below"
                         THEN To("release", held)
                    ELSE To("release", 0)

\* The detector before its first reading.
OnsetInit ==
    /\ onset = OnsetStart
    /\ heard = <<>>
    /\ trail = <<OnsetStart.state>>

\* The detector takes the loudness of one frame.
OnsetFrame(loudness) ==
    /\ Len(heard) < MaxOnsetFrames
    /\ onset' = OnsetUpdate(onset, loudness)
    /\ heard' = Append(heard, loudness)
    /\ trail' = IF onset'.state # onset.state
                THEN Append(trail, onset'.state)
                ELSE trail
    /\ UNCHANGED <<ioVars, loopVars, correctorVars, appVars>>

OnsetFrameArrives == \E loudness \in LoudnessLevels : OnsetFrame(loudness)

(***************************************************************************)
(* Scales (src/unnamed/part_009) and the lock of the PitchCorrector.  The  *)
(* corrector itself is not among the sources: its lock follows section 4.6 *)
(* of the specification, on top of getNearestScaleNote() of the sources.   *)
(* Note numbers are MIDI numbers; an input pitch is given by its note      *)
(* number in cents (hundredths of a semitone).                             *)
(***************************************************************************)
SCALES ==
    [chromatic |-> <<0, 1, 2, 3, 4, 5, 6, 7, 8, 9, 10, 11>>,
     major |-> <<0, 2, 4, 5, 7, 9, 11>>,
     minor |-> <<0, 2, 3, 5, 7, 8, 10>>,
     pentatonic_major |-> <<0, 2, 4, 7, 9>>,
     pentatonic_minor |-> <<0, 3, 5, 7, 10>>,
     blues |-> <<0, 3, 5, 6, 7, 10>>]

ScaleTypes == DOMAIN SCALES

\* KEYS.indexOf(rootKey) for the roots tried: 'C' and 'D'.
RootKeys == {0, 2}

CentsPerSemitone == 100

\* The input pitches tried: every tenth of a semitone from MinInputCents to
\* MaxInputCents.
MinInputCents == 5850
MaxInputCents == 6500
InputStep == 10
InputCents ==
    {c \in MinInputCents..MaxInputCents : (c - MinInputCents) % InputStep = 0}

\* freqToMidi() of no frequency.
NoPitch == 0

Abs(x) == IF x < 0 THEN -x ELSE x

\* Math.round() of a note number given in cents.
RoundToSemitone(cents) == (cents + 50) \div CentsPerSemitone

\* A distance that does not go round the octave.
IntervalDistanceMutant(a, b) == Abs(a - b)

\* The distance of two intervals round the octave (lines 64-65).
IntervalDistance(a, b) ==
    LET dist == Abs(a - b)
    IN  IF dist > 6 THEN 12 - dist ELSE dist

\* The loop of lines 59-71: the first interval of the scale at the least
\* distance.
BestInterval(intervals, interval) ==
    LET i == CHOOSE i \in 1..Len(intervals) :
                 \A j \in 1..Len(intervals) :
                     \/ IntervalDistance(intervals[i], interval)
                            < IntervalDistance(intervals[j], interval)
                     \/ /\ IntervalDistance(intervals[i], interval)
                               = IntervalDistance(intervals[j], interval)
                        /\ i <= j
    IN  intervals[i]

\* A search that quantizes to the chromatic semitone whatever the scale.
GetNearestScaleNoteMutant(inputCents, rootIndex, scale) ==
    LET nearestSemi == RoundToSemitone(inputCents)
    IN  [midi |-> nearestSemi,
         centsDeviation |-> inputCents - nearestSemi * CentsPerSemitone]

\* getNearestScaleNote() (lines 43-96), on the note number of the input.
GetNearestScaleNote(inputCents, rootIndex, scale) ==
    LET nearestSemi == RoundToSemitone(inputCents)
        noteChroma == ((nearestSemi % 12) + 12) % 12
        interval == (noteChroma - rootIndex + 12) % 12
        intervals == SCALES[scale]
        targetChroma == (rootIndex + BestInterval(intervals, interval)) % 12
        diff == targetChroma - noteChroma
        targetMidi ==
            IF \E i \in 1..Len(intervals) : intervals[i] = interval
            THEN nearestSemi
            ELSE IF diff > 6 THEN nearestSemi + diff - 12
            ELSE IF diff < -6 THEN nearestSemi + diff + 12
            ELSE nearestSemi + diff
    IN  [midi |-> targetMidi,
         centsDeviation |-> inputCents - targetMidi * CentsPerSemitone]

\* KEYS.indexOf(rootKey) of every root key.
AllRootKeys == 0..11

\* The arguments getNearestScaleNote() is tried on.
QuantizeInputs == [cents : InputCents, root : AllRootKeys, scale : ScaleTypes]

\* No call of getNearestScaleNote() has returned.
NotQuantized == [midi |-> 0, centsDeviation |-> 0]

QuantizeInit ==
    /\ quantizeInput \in QuantizeInputs
    /\ quantized = NotQuantized

QuantizeParked ==
    /\ quantizeInput = [cents |-> MinInputCents, root |-> 0,
                        scale |-> "chromatic"]
    /\ quantized = NotQuantized

\* A call of getNearestScaleNote() on the arguments at hand.
Quantize ==
    /\ quantized = NotQuantized
    /\ quantized' = GetNearestScaleNote(quantizeInput.cents, quantizeInput.root,
                                        quantizeInput.scale)
    /\ UNCHANGED quantizeInput
    /\ UNCHANGED exceptQuant

\* lockedNoteSemitone = none.
NoNote == -1

\* The hysteresis threshold: 0.6 semitone.
HysteresisCents == 60

Confidences == {0, 1}
PitchEstimates ==
    [midiCents : InputCents \cup {NoPitch}, confidence : Confidences]
NoEstimate == [midiCents |-> NoPitch, confidence |-> 0]

\* An estimate that tells something about the pitch.
Voiced(estimate) ==
    /\ estimate.midiCents # NoPitch
    /\ estimate.confidence > 0

\* How far an input lies from a locked note, in cents.
Deviation(estimate, locked) ==
    Abs(estimate.midiCents - locked * CentsPerSemitone)

\* A lock that follows the nearest note at once.
SwitchesLockMutant(estimate, locked) == TRUE

\* Step 3 of correct(): the lock moves only when the input deviates from
\* the locked note by more than the threshold.
SwitchesLock(estimate, locked) ==
    \/ locked = NoNote
    \/ Deviation(estimate, locked) > HysteresisCents

\* The lock after correct() has taken an estimate.
LockAfter(estimate, locked, rootIndex, scale) ==
    IF ~Voiced(estimate) THEN locked
    ELSE IF SwitchesLock(estimate, locked)
         THEN GetNearestScaleNote(estimate.midiCents, rootIndex, scale).midi
    ELSE locked

\* The corrector as initialized, on the chromatic scale of C.
CorrectorInit ==
    /\ lockedNoteSemitone = NoNote
    /\ prevLocked = NoNote
    /\ scaleType = "chromatic"
    /\ rootKey = 0
    /\ pitchInput = NoEstimate

\* correct(pitchEstimate, scale, speed, now), as far as the lock goes.
Correct(estimate) ==
    /\ lockedNoteSemitone' = LockAfter(estimate, lockedNoteSemitone, rootKey, scaleType)
    /\ prevLocked' = lockedNoteSemitone
    /\ pitchInput' = estimate
    /\ UNCHANGED <<scaleType, rootKey>>
    /\ UNCHANGED <<ioVars, loopVars, onsetVars, appVars>>

PitchEstimateArrives == \E estimate \in PitchEstimates : Correct(estimate)

\* setScale(rootKey, scaleType).
SetScale(root, scale) ==
    /\ rootKey' = root
    /\ scaleType' = scale
    /\ prevLocked' = lockedNoteSemitone
    /\ pitchInput' = NoEstimate
    /\ UNCHANGED lockedNoteSemitone
    /\ UNCHANGED <<ioVars, loopVars, onsetVars, appVars>>

\* Explicit silence or re-initialization: the lock is given up.
ResetCorrection ==
    /\ lockedNoteSemitone' = NoNote
    /\ prevLocked' = lockedNoteSemitone
    /\ pitchInput' = NoEstimate
    /\ UNCHANGED <<scaleType, rootKey>>
    /\ UNCHANGED <<ioVars, loopVars, onsetVars, appVars>>

\* The signal-processing stages before their first frame.
DspInit == OnsetInit /\ CorrectorInit

(***************************************************************************)
(* SynthManager (src/js/managers/device-manager.js, lines 196-353): the    *)
(* two synthesis engines, the active one, and the synth slice of the       *)
(* store.  Strengths and speeds are in tenths.  The engines themselves are *)
(* not part of the sources at hand: an engine is what the manager calls on *)
(* it, each setter keeping the value it is given.                          *)
(***************************************************************************)
AutoTuneFields == {"enabled", "strength", "speed", "key", "scale"}

Strengths == {5, 8}

Speeds == {1, 3}

Keys == {"C", "D"}

TuneScales == {"major", "minor"}

\* Instrument ids; "" stands for every falsy id.
Instruments == {"flute", "cello"}

InstrumentIds == Instruments \cup {""}

\* The synth slice the tests of the manager start from.
InitialSynthState ==
    [instrument |-> "flute", continuousMode |-> TRUE,
     autoTune |-> [enabled |-> FALSE, strength |-> 5, speed |-> 1,
                   key |-> "C", scale |-> "major"],
     reverbWet |-> 2, delayWet |-> 0]

\* A partial auto-tune configuration: `has` holds the fields that are given,
\* a field that is not given carries the value of InitialSynthState and is
\* never read.
AutoTuneConfigs ==
    {c \in [has : SUBSET AutoTuneFields, enabled : BOOLEAN,
            strength : Strengths, speed : Speeds, key : Keys,
            scale : TuneScales] :
        /\ "enabled" \notin c.has => c.enabled = InitialSynthState.autoTune.enabled
        /\ "strength" \notin c.has => c.strength = InitialSynthState.autoTune.strength
        /\ "speed" \notin c.has => c.speed = InitialSynthState.autoTune.speed
        /\ "key" \notin c.has => c.key = InitialSynthState.autoTune.key
        /\ "scale" \notin c.has => c.scale = InitialSynthState.autoTune.scale}

\* What a frame is processed with when no auto-tune takes part in it.
NoTune == [strength |-> 0, speed |-> 0, key |-> "", scale |-> ""]

\* The parameters a continuous engine may hold before the manager has set
\* any: those of the initial store, or others.
EngineDefaults ==
    {[strength |-> 0, speed |-> 1, key |-> "C", scale |-> "major"],
     [strength |-> 8, speed |-> 3, key |-> "D", scale |-> "minor"]}

\* The reverb and delay of an engine no setReverbWet() and no setDelayWet()
\* has been called on; NotApplied is no amount.
NotApplied == -1

NoEffects == [reverb |-> NotApplied, delay |-> NotApplied]

SynthCalled(op, updated, instrument, outcome) ==
    [op |-> op, updated |-> updated, instrument |-> instrument,
     outcome |-> outcome]

NoSynthCall == SynthCalled("none", {}, "", "none")

\* new SynthManager({ continuous, legacy }) (lines 202-208).
SynthInit ==
    /\ synthEngines \in [continuous : BOOLEAN, legacy : BOOLEAN]
    /\ synthActive = "continuous"
    /\ storeSynth = InitialSynthState
    /\ engineTune \in EngineDefaults
    /\ engineInstrument = [continuous |-> "flute", legacy |-> "flute"]
    /\ engineEffects = [continuous |-> NoEffects, legacy |-> NoEffects]
    /\ synthReady = FALSE
    /\ frameTune = NoTune
    /\ synthCall = NoSynthCall

\* A manager that nothing is called on, constructed with both engines.
SynthParked ==
    /\ SynthInit
    /\ synthEngines = [continuous |-> TRUE, legacy |-> TRUE]
    /\ engineTune = [strength |-> 0, speed |-> 1, key |-> "C",
                     scale |-> "major"]

\* this.activeEngine is an engine (the first half of the guard of line 265).
HasActiveEngine == synthEngines[synthActive]

\* setMode(isContinuous) (lines 236-255).
SetMode(isContinuous) ==
    /\ synthActive' = IF isContinuous THEN "continuous" ELSE "legacy"
    /\ storeSynth' = [storeSynth EXCEPT !.continuousMode = isContinuous]
    /\ synthCall' = SynthCalled("setMode", {}, "", "returned")
    /\ frameTune' = NoTune
    /\ UNCHANGED <<synthEngines, engineTune, engineInstrument, engineEffects,
                   synthReady>>
    /\ UNCHANGED exceptSynth

\* A catch block that goes on to the store.
InstrumentStoredMutant(current, instrumentId, threw) == instrumentId

\* Lines 268-277: the instrument of the store after the try block; the return
\* of the catch block comes before the update.
InstrumentStored(current, instrumentId, threw) ==
    IF threw THEN current ELSE instrumentId

\* setInstrument(instrumentId) (lines 261-278); threw tells whether the
\* changeInstrument() of the active engine throws.  Both engines have the
\* method.
SetInstrument(instrumentId, threw) ==
    /\ IF instrumentId = ""
       THEN /\ synthCall' = SynthCalled("setInstrument", {}, instrumentId,
                                        "returned")
            /\ UNCHANGED <<storeSynth, engineInstrument>>
       ELSE IF HasActiveEngine
       THEN /\ engineInstrument' =
                   IF threw THEN engineInstrument
                   ELSE [engineInstrument EXCEPT ![synthActive] = instrumentId]
            /\ storeSynth' =
                   [storeSynth EXCEPT !.instrument =
                        InstrumentStored(@, instrumentId, threw)]
            /\ synthCall' = SynthCalled("setInstrument", {}, instrumentId,
                                        IF threw THEN "caught" ELSE "returned")
       ELSE /\ storeSynth' = [storeSynth EXCEPT !.instrument = instrumentId]
            /\ synthCall' = SynthCalled("setInstrument", {}, instrumentId,
                                        "returned")
            /\ UNCHANGED engineInstrument
    /\ frameTune' = NoTune
    /\ UNCHANGED <<synthEngines, synthActive, engineTune, engineEffects,
                   synthReady>>
    /\ UNCHANGED exceptSynth

\* { ...currentConfig, ...config } (line 319).
MergeAutoTune(current, c) ==
    [enabled |-> IF "enabled" \in c.has THEN c.enabled ELSE current.enabled,
     strength |-> IF "strength" \in c.has THEN c.strength ELSE current.strength,
     speed |-> IF "speed" \in c.has THEN c.speed ELSE current.speed,
     key |-> IF "key" \in c.has THEN c.key ELSE current.key,
     scale |-> IF "scale" \in c.has THEN c.scale ELSE current.scale]

\* A strength handed to the engine whether auto-tune is enabled or not.
EngineStrengthMutant(newConfig) == newConfig.strength

\* The argument of setAutoTuneStrength (lines 324 and 328).
EngineStrength(newConfig) ==
    IF newConfig.enabled THEN newConfig.strength ELSE 0

\* The guard of the call of setScale (line 333).
ScaleGiven(c) == "key" \in c.has \/ "scale" \in c.has

\* An update of `enabled` that sends the engine no strength.
TuneAfterMutant(tune, c, newConfig) ==
    [strength |-> IF "strength" \in c.has
                  THEN EngineStrength(newConfig) ELSE tune.strength,
     speed |-> IF "speed" \in c.has THEN newConfig.speed ELSE tune.speed,
     key |-> IF ScaleGiven(c) THEN newConfig.key ELSE tune.key,
     scale |-> IF ScaleGiven(c) THEN newConfig.scale ELSE tune.scale]

\* Lines 323-335: the calls on the continuous engine.
TuneAfter(tune, c, newConfig) ==
    [strength |-> IF "strength" \in c.has \/ "enabled" \in c.has
                  THEN EngineStrength(newConfig) ELSE tune.strength,
     speed |-> IF "speed" \in c.has THEN newConfig.speed ELSE tune.speed,
     key |-> IF ScaleGiven(c) THEN newConfig.key ELSE tune.key,
     scale |-> IF ScaleGiven(c) THEN newConfig.scale ELSE tune.scale]

\* setAutoTuneConfig(config) (lines 317-345).
SetAutoTuneConfig(c) ==
    LET newConfig == MergeAutoTune(storeSynth.autoTune, c)
    IN  /\ engineTune' = IF synthEngines.continuous
                         THEN TuneAfter(engineTune, c, newConfig)
                         ELSE engineTune
        /\ storeSynth' = [storeSynth EXCEPT !.autoTune = newConfig]
        /\ synthCall' = SynthCalled("setAutoTuneConfig", c.has, "", "returned")
        /\ frameTune' = NoTune
        /\ UNCHANGED <<synthEngines, synthActive, engineInstrument,
                       engineEffects, synthReady>>
        /\ UNCHANGED exceptSynth

\* Amounts of reverb and delay, in tenths: below 0, within 0..1 and above 1.
Amounts == {-3, 5, 12}

\* Math.max(0, Math.min(1, amount)) (lines 286 and 301), in tenths.
Clamp(amount) == IF amount < 0 THEN 0 ELSE IF amount > 10 THEN 10 ELSE amount

\* setReverb(amount) (lines 284-295).  Both engines have setReverbWet.
SetReverb(amount) ==
    /\ engineEffects' =
           IF HasActiveEngine
           THEN [engineEffects EXCEPT ![synthActive].reverb = Clamp(amount)]
           ELSE engineEffects
    /\ storeSynth' = [storeSynth EXCEPT !.reverbWet = Clamp(amount)]
    /\ synthCall' = SynthCalled("setReverb", {}, "", "returned")
    /\ frameTune' = NoTune
    /\ UNCHANGED <<synthEngines, synthActive, engineTune, engineInstrument,
                   synthReady>>
    /\ UNCHANGED exceptSynth

\* setDelay(amount) (lines 300-311).  Both engines have setDelayWet.
SetDelay(amount) ==
    /\ engineEffects' =
           IF HasActiveEngine
           THEN [engineEffects EXCEPT ![synthActive].delay = Clamp(amount)]
           ELSE engineEffects
    /\ storeSynth' = [storeSynth EXCEPT !.delayWet = Clamp(amount)]
    /\ synthCall' = SynthCalled("setDelay", {}, "", "returned")
    /\ frameTune' = NoTune
    /\ UNCHANGED <<synthEngines, synthActive, engineTune, engineInstrument,
                   synthReady>>
    /\ UNCHANGED exceptSynth

\* state.autoTune as the argument of setAutoTuneConfig (line 228): every
\* field is given.
WholeConfig(autoTune) ==
    [has |-> AutoTuneFields, enabled |-> autoTune.enabled,
     strength |-> autoTune.strength, speed |-> autoTune.speed,
     key |-> autoTune.key, scale |-> autoTune.scale]

\* init() (lines 213-230): setMode, setInstrument, setReverb, setDelay and
\* setAutoTuneConfig with what the store holds; threw tells whether the
\* changeInstrument() of the engine throws (setInstrument catches it).
SynthManagerInit(threw) ==
    LET state == storeSynth
        active == IF state.continuousMode THEN "continuous" ELSE "legacy"
    IN  /\ synthActive' = active
        /\ engineInstrument' =
               IF synthEngines[active] /\ ~threw
               THEN [engineInstrument EXCEPT ![active] = state.instrument]
               ELSE engineInstrument
        /\ engineEffects' =
               IF synthEngines[active]
               THEN [engineEffects EXCEPT
                        ![active] = [reverb |-> Clamp(state.reverbWet),
                                     delay |-> Clamp(state.delayWet)]]
               ELSE engineEffects
        /\ engineTune' =
               IF synthEngines.continuous
               THEN TuneAfter(engineTune, WholeConfig(state.autoTune),
                              MergeAutoTune(state.autoTune,
                                            WholeConfig(state.autoTune)))
               ELSE engineTune
        /\ storeSynth' =
               [state EXCEPT
                   !.instrument = InstrumentStored(@, state.instrument,
                                                   synthEngines[active] /\ threw),
                   !.reverbWet = Clamp(@), !.delayWet = Clamp(@),
                   !.autoTune = MergeAutoTune(@, WholeConfig(@))]
        /\ synthReady' = TRUE
        /\ synthCall' = SynthCalled("init", AutoTuneFields, state.instrument,
                                    "returned")
        /\ frameTune' = NoTune
        /\ UNCHANGED synthEngines
        /\ UNCHANGED exceptSynth

\* The active engine processes a pitch frame: the continuous engine with the
\* auto-tune parameters it holds, the legacy engine with none.
ProcessPitchFrame ==
    /\ HasActiveEngine
    /\ frameTune' = IF synthActive = "continuous" THEN engineTune ELSE NoTune
    /\ synthCall' = [synthCall EXCEPT !.outcome = "frame"]
    /\ UNCHANGED <<synthEngines, synthActive, storeSynth, engineTune,
                   engineInstrument, engineEffects, synthReady>>
    /\ UNCHANGED exceptSynth

(***************************************************************************)
(* AppContainer (src/unnamed/part_010, lines 54-229).  A factory asks the  *)
(* container for the service it depends on, if any, lets an error of that  *)
(* get() pass, and then returns a new instance, returns null or throws.    *)
(* An instance is named by the number of the factory call that made it.    *)
(***************************************************************************)
MaxFactoryCalls == 2
    \* invocations of one factory

ServiceNames == {"a", "b", "c"}

NoDependency == "none"

NullInstance == 0

\* What a factory does once it has its dependency.
FactoryResults == {"object", "null", "throws"}

\* The factories of one get(): all return an instance, or one of them does not.
FactoryPlans ==
    {p \in [ServiceNames -> FactoryResults] :
        Cardinality({n \in ServiceNames : p[n] # "object"}) <= 1}

ServiceConfigs == [dep : ServiceNames \cup {NoDependency}, singleton : BOOLEAN]

GetEnded(name, outcome, value) ==
    [name |-> name, outcome |-> outcome, value |-> value]

\* new AppContainer() (lines 58-76) and register() (lines 95-119) of each
\* service.
ContainerInit ==
    /\ registry \in [ServiceNames -> ServiceConfigs]
    /\ factoryCalls = [n \in ServiceNames |-> 0]
    /\ instance = [n \in ServiceNames |-> NullInstance]
    /\ creating = {}
    /\ lastGet = GetEnded("none", "none", NullInstance)

\* A container nothing is asked of: three singletons without dependencies.
ContainerParked ==
    /\ ContainerInit
    /\ registry = [n \in ServiceNames |->
                       [dep |-> NoDependency, singleton |-> TRUE]]

\* The container as a get() passes it on.
Container(calls, inst, busy) ==
    [calls |-> calls, instance |-> inst, creating |-> busy]

GetResult(c, outcome, value) == [c |-> c, outcome |-> outcome, value |-> value]

\* A container that creates a singleton again although it holds it.
IsCachedMutant(c, name) == FALSE

\* The guard of line 148.
IsCached(c, name) ==
    registry[name].singleton /\ c.instance[name] # NullInstance

\* A container that hands out null where a service is being created.
CircularDependencyMutant(c, name) == GetResult(c, "returned", NullInstance)

\* Lines 153-159: the error of a circular dependency.
CircularDependency(c, name) == GetResult(c, "circular", NullInstance)

\* A get() that removes its mark only where the creation succeeds.
ReleaseMutant(r, name) ==
    IF r.outcome = "returned" THEN [r EXCEPT !.c.creating = @ \ {name}] ELSE r

\* finally (lines 185-188).
Release(r, name) ==
    [r EXCEPT !.c.creating = @ \ {name}]

\* Lines 170-181 once the factory has its dependency: what it returns is
\* cached for a singleton and returned, what it throws is thrown on.
Produce(c, name, plan) ==
    CASE plan[name] = "throws" -> GetResult(c, "factory error", NullInstance)
      [] plan[name] = "null" ->
            GetResult([c EXCEPT !.instance[name] =
                           IF registry[name].singleton THEN NullInstance ELSE @],
                      "returned", NullInstance)
      [] OTHER ->
            GetResult([c EXCEPT !.instance[name] =
                           IF registry[name].singleton THEN c.calls[name] ELSE @],
                      "returned", c.calls[name])

RECURSIVE ContainerGet(_, _, _)

\* get(name) (lines 137-189), with the get() its factory makes.
ContainerGet(c, name, plan) ==
    IF IsCached(c, name)
    THEN GetResult(c, "returned", c.instance[name])
    ELSE IF name \in c.creating
    THEN CircularDependency(c, name)
    ELSE LET marked == [c EXCEPT !.creating = @ \cup {name},
                                 !.calls[name] = @ + 1]
             dep == registry[name].dep
             asked == IF dep = NoDependency
                      THEN GetResult(marked, "returned", NullInstance)
                      ELSE ContainerGet(marked, dep, plan)
         IN  Release(IF asked.outcome = "returned"
                     THEN Produce(asked.c, name, plan)
                     ELSE asked,
                     name)

\* A call of get(name) from outside the container.
Get(name, plan) ==
    LET r == ContainerGet(Container(factoryCalls, instance, creating), name, plan)
    IN  /\ \A n \in ServiceNames : factoryCalls[n] < MaxFactoryCalls
        /\ factoryCalls' = r.c.calls
        /\ instance' = r.c.instance
        /\ creating' = r.c.creating
        /\ lastGet' = GetEnded(name, r.outcome, r.value)
        /\ UNCHANGED registry
        /\ UNCHANGED exceptContainer

(***************************************************************************)
(* AudioService (src/src/lib/audio/AudioService.ts, lines 18-276).         *)
(* initialize() and start() are async: a step runs up to the next await.   *)
(* A run of _doInitialize() waits for the libraries (lines 82-89), for     *)
(* main.js and the container (95-98), then for the app (101-109).  The     *)
(* listeners only read the state they are handed.                          *)
(***************************************************************************)
MaxInitRuns == 2
    \* runs of _doInitialize()
MaxStarts == 2
    \* start() calls in progress at the same time
MaxAppStarts == 3
    \* calls of window.app.start()

InitRunIds == 1..MaxInitRuns

NoPromise == 0

InitStages == <<"libraries", "main", "app">>

InFlightStages == {InitStages[i] : i \in 1..Len(InitStages)}

ServiceCalled(op, outcome, promise) ==
    [op |-> op, outcome |-> outcome, promise |-> promise]

\* new AudioService() (lines 23-33).
ServiceInit ==
    /\ svc = [isReady |-> FALSE, isPlaying |-> FALSE]
    /\ initPromise = NoPromise
    /\ initRuns = [r \in InitRunIds |-> "unused"]
    /\ starts = [tone |-> 0, app |-> 0]
    /\ appStartCalls = 0
    /\ lastSvc = ServiceCalled("none", "none", NoPromise)

UnusedRuns == {r \in InitRunIds : initRuns[r] = "unused"}

NewRun == CHOOSE r \in UnusedRuns : \A q \in UnusedRuns : r <= q

\* An initialize() that does not look for a pending initialization.
InitPendingMutant == FALSE

\* The guard of line 65.
InitPending == initPromise # NoPromise

\* What the caller of initialize() gets with the promise of run r: a promise
\* that is pending while the run is in flight, else one settled as the run.
PromiseOf(r) == IF initRuns[r] \in InFlightStages THEN "pending" ELSE initRuns[r]

\* initialize() (lines 63-75), with _doInitialize() up to its first await.
\* The first setState() (line 79) runs before any await: when a listener
\* throws there (setState catches nothing, line 56), catch and finally run
\* at once, _doInitialize() returns a promise already rejected, and line 73
\* assigns it to initPromise after the finally block has cleared the field.
ServiceInitialize ==
    /\ IF InitPending
       THEN /\ lastSvc' = ServiceCalled("initialize", PromiseOf(initPromise),
                                        initPromise)
            /\ UNCHANGED <<initPromise, initRuns>>
       ELSE IF svc.isReady
       THEN /\ lastSvc' = ServiceCalled("initialize", "resolved", NoPromise)
            /\ UNCHANGED <<initPromise, initRuns>>
       ELSE /\ UnusedRuns # {}
            /\ \E listenerThrows \in BOOLEAN :
                  /\ initRuns' = [initRuns EXCEPT ![NewRun] =
                                     IF listenerThrows THEN "rejected"
                                     ELSE InitStages[1]]
                  /\ lastSvc' = ServiceCalled("initialize",
                                              IF listenerThrows THEN "rejected"
                                              ELSE "pending", NewRun)
            /\ initPromise' = NewRun
    /\ UNCHANGED <<svc, starts, appStartCalls>>
    /\ UNCHANGED exceptService

\* An await of _doInitialize() resolves: on to the next one, or past the
\* last one to isReady (lines 111-114) and finally (line 125).
InitStageResolves(r) ==
    /\ initRuns[r] \in InFlightStages
    /\ LET i == CHOOSE i \in 1..Len(InitStages) : InitStages[i] = initRuns[r]
       IN  IF i < Len(InitStages)
           THEN /\ initRuns' = [initRuns EXCEPT ![r] = InitStages[i + 1]]
                /\ UNCHANGED <<svc, initPromise, lastSvc>>
           ELSE /\ initRuns' = [initRuns EXCEPT ![r] = "resolved"]
                /\ svc' = [svc EXCEPT !.isReady = TRUE]
                /\ initPromise' = NoPromise
                /\ lastSvc' = ServiceCalled("_doInitialize", "resolved", r)
    /\ UNCHANGED <<starts, appStartCalls>>
    /\ UNCHANGED exceptService

\* An await of _doInitialize() rejects: catch (lines 117-123) and finally.
InitStageRejects(r) ==
    /\ initRuns[r] \in InFlightStages
    /\ initRuns' = [initRuns EXCEPT ![r] = "rejected"]
    /\ svc' = [svc EXCEPT !.isReady = FALSE]
    /\ initPromise' = NoPromise
    /\ lastSvc' = ServiceCalled("_doInitialize", "rejected", r)
    /\ UNCHANGED <<starts, appStartCalls>>
    /\ UNCHANGED exceptService

\* A start() that does not look whether the service is ready.
StartRefusedMutant == FALSE

\* The guard of line 133.
StartRefused == ~svc.isReady

\* start() (lines 132-165) up to its first await: that of Tone.start() when
\* the AudioContext is suspended, else that of window.app.start().
ServiceStart ==
    /\ IF StartRefused
       THEN /\ lastSvc' = ServiceCalled("start", "rejected", NoPromise)
            /\ UNCHANGED <<starts, appStartCalls>>
       ELSE IF svc.isPlaying
       THEN /\ lastSvc' = ServiceCalled("start", "ignored", NoPromise)
            /\ UNCHANGED <<starts, appStartCalls>>
       ELSE /\ starts.tone + starts.app < MaxStarts
            /\ appStartCalls < MaxAppStarts
            /\ lastSvc' = ServiceCalled("start", "pending", NoPromise)
            /\ \E suspended \in BOOLEAN :
                  IF suspended
                  THEN /\ starts' = [starts EXCEPT !.tone = @ + 1]
                       /\ UNCHANGED appStartCalls
                  ELSE /\ starts' = [starts EXCEPT !.app = @ + 1]
                       /\ appStartCalls' = appStartCalls + 1
    /\ UNCHANGED <<svc, initPromise, initRuns>>
    /\ UNCHANGED exceptService

\* Tone.start() resolves: window.app.start() is called (lines 148-152).
ToneStartResolves ==
    /\ starts.tone > 0
    /\ appStartCalls < MaxAppStarts
    /\ starts' = [tone |-> starts.tone - 1, app |-> starts.app + 1]
    /\ appStartCalls' = appStartCalls + 1
    /\ lastSvc' = ServiceCalled("start", "resumed", NoPromise)
    /\ UNCHANGED <<svc, initPromise, initRuns>>
    /\ UNCHANGED exceptService

\* Tone.start() rejects: catch (lines 160-164).
ToneStartRejects ==
    /\ starts.tone > 0
    /\ starts' = [starts EXCEPT !.tone = @ - 1]
    /\ lastSvc' = ServiceCalled("start", "failed", NoPromise)
    /\ UNCHANGED <<svc, initPromise, initRuns, appStartCalls>>
    /\ UNCHANGED exceptService

\* window.app.start() resolves: isPlaying (lines 154-157).
AppStartResolves ==
    /\ starts.app > 0
    /\ starts' = [starts EXCEPT !.app = @ - 1]
    /\ svc' = [svc EXCEPT !.isPlaying = TRUE]
    /\ lastSvc' = ServiceCalled("start", "resolved", NoPromise)
    /\ UNCHANGED <<initPromise, initRuns, appStartCalls>>
    /\ UNCHANGED exceptService

\* window.app.start() rejects: catch (lines 160-164).
AppStartRejects ==
    /\ starts.app > 0
    /\ starts' = [starts EXCEPT !.app = @ - 1]
    /\ lastSvc' = ServiceCalled("start", "failed", NoPromise)
    /\ UNCHANGED <<svc, initPromise, initRuns, appStartCalls>>
    /\ UNCHANGED exceptService

\* stop() (lines 170-188); threw tells whether window.app.stop() throws.
ServiceStop(threw) ==
    /\ IF svc.isPlaying /\ ~threw
       THEN svc' = [svc EXCEPT !.isPlaying = FALSE]
       ELSE UNCHANGED svc
    /\ lastSvc' = ServiceCalled("stop", IF svc.isPlaying /\ threw
                                        THEN "caught" ELSE "returned", NoPromise)
    /\ UNCHANGED <<initPromise, initRuns, starts, appStartCalls>>
    /\ UNCHANGED exceptService

(***************************************************************************)
(* validateConfig() and ConfigManager (src/src/lib/audio/AudioService.ts,  *)
(* lines 618-709 and 724-851), on the fields the rules of the validation   *)
(* read: the sample rate, the buffer size, the clarity threshold (in       *)
(* hundredths), the frequency range of the pitch detector and the FFT      *)
(* size.  The fields left out keep the values of DEFAULT_CONFIG.           *)
(***************************************************************************)
\* A key the user configuration does not have.
NotGiven == -999

\* The values the user configuration may give.
UserConfigs ==
    [sampleRate : {NotGiven, -1, 0},
     bufferSize : {NotGiven, 0},
     clarityThreshold : {NotGiven, 150},
     minFrequency : {NotGiven, 2000},
     maxFrequency : {NotGiven, 0},
     fftSize : {NotGiven, 1000}]

Presets == {"none", "low-latency"}

\* DEFAULT_CONFIG (lines 442-504).
DEFAULT_CONFIG ==
    [sampleRate |-> 44100, bufferSize |-> 2048, clarityThreshold |-> 10,
     minFrequency |-> 50, maxFrequency |-> 1500, fftSize |-> 2048]

\* DEFAULT_CONFIG under LOW_LATENCY_PRESET (lines 514-537).
LOW_LATENCY_CONFIG ==
    [DEFAULT_CONFIG EXCEPT !.sampleRate = 48000, !.bufferSize = 512,
                           !.fftSize = 1024]

\* Step 1 of load() (lines 733-749).
BaseConfig(preset) ==
    IF preset = "low-latency" THEN LOW_LATENCY_CONFIG ELSE DEFAULT_CONFIG

Given(target, value) == IF value = NotGiven THEN target ELSE value

\* _mergeDeep(target, source) (lines 813-831): every key of the source
\* replaces that of the target.
MergeDeep(target, source) ==
    [sampleRate |-> Given(target.sampleRate, source.sampleRate),
     bufferSize |-> Given(target.bufferSize, source.bufferSize),
     clarityThreshold |-> Given(target.clarityThreshold, source.clarityThreshold),
     minFrequency |-> Given(target.minFrequency, source.minFrequency),
     maxFrequency |-> Given(target.maxFrequency, source.maxFrequency),
     fftSize |-> Given(target.fftSize, source.fftSize)]

MinValidSampleRate == 8000
MaxValidSampleRate == 96000

ValidBufferSizes == {256, 512, 1024, 2048, 4096, 8192, 16384}

ValidFftSizes == {128, 256, 512, 1024, 2048, 4096, 8192, 16384}

\* A number as a condition: 0 is false.
Truthy(x) == x # 0

\* validateConfig(config) (lines 618-709): the errors it collects.
ConfigErrors(c) ==
    (IF Truthy(c.sampleRate)
        /\ (c.sampleRate < MinValidSampleRate \/ c.sampleRate > MaxValidSampleRate)
     THEN {"sampleRate"} ELSE {})
    \cup (IF Truthy(c.bufferSize) /\ c.bufferSize \notin ValidBufferSizes
          THEN {"bufferSize"} ELSE {})
    \cup (IF c.clarityThreshold < 0 \/ c.clarityThreshold > 100
          THEN {"clarityThreshold"} ELSE {})
    \cup (IF Truthy(c.minFrequency) /\ Truthy(c.maxFrequency)
             /\ c.minFrequency >= c.maxFrequency
          THEN {"minFrequency"} ELSE {})
    \cup (IF Truthy(c.maxFrequency) /\ Truthy(c.sampleRate)
             /\ 2 * c.maxFrequency >= c.sampleRate
          THEN {"nyquist"} ELSE {})
    \cup (IF Truthy(c.fftSize) /\ c.fftSize \notin ValidFftSizes
          THEN {"fftSize"} ELSE {})

\* this._config = null (line 725).
NotLoaded == [DEFAULT_CONFIG EXCEPT !.sampleRate = NotGiven]

LoadEnded(outcome, merged) == [outcome |-> outcome, merged |-> merged]

\* new ConfigManager() (lines 725-726).
ManagerInit ==
    /\ managerConfig = NotLoaded
    /\ lastLoad = LoadEnded("none", NotLoaded)

\* load(userConfig, preset) (lines 731-780).
Load(userConfig, preset) ==
    LET mergedConfig == MergeDeep(BaseConfig(preset), userConfig)
    IN  /\ IF ConfigErrors(mergedConfig) # {}
           THEN /\ lastLoad' = LoadEnded("threw", mergedConfig)
                /\ UNCHANGED managerConfig
           ELSE /\ managerConfig' = mergedConfig
                /\ lastLoad' = LoadEnded("returned", mergedConfig)
        /\ UNCHANGED exceptManager

\* The application parts before anything is called on them.
AppParked ==
    /\ SynthParked /\ QuantizeParked /\ ContainerParked
    /\ ServiceInit /\ ManagerInit

(***************************************************************************)
(* Specifications.  Each one runs one object and keeps the other as        *)
(* constructed.                                                            *)
(***************************************************************************)
\* An AudioIO that nothing is called on, in a browser that has everything.
IOParked == IOInit /\ runtime = "full"

\* A controller that nothing is called on, constructed with every service.
LoopParked ==
    /\ LoopInit
    /\ services = [visualizerManager |-> TRUE, pitchDetector |-> TRUE,
                   expressiveFeatures |-> TRUE, aiHarmonizer |-> "disabled"]
    /\ activeEngine = "frame"

\* start() and stop() of AudioIO.
IOStartStop ==
    \/ StartCall
    \/ StartRequestMicrophone
    \/ GetUserMediaResolves
    \/ \E err \in MicErrors : GetUserMediaRejects(err)
    \/ GetUserMediaRetryResolves
    \/ GetUserMediaRetryRejects
    \/ AddModuleResolves
    \/ AddModuleRejects
    \/ Stop

\* The life cycle of AudioIO: start() and stop(), overlapping as the caller
\* pleases, the choice of the mode, the error and state callbacks.
Init == IOInit /\ LoopParked /\ DspInit /\ AppParked

Next ==
    \/ IOStartStop
    \/ ConfigureUseWorklet
    \/ \E f \in BOOLEAN : OnError(f)
    \/ \E f \in BOOLEAN : OnStateChange(f)

Spec == Init /\ [][Next]_vars

\* Calls of start() that nothing fails and no stop() interrupts: the calls
\* overlap as the caller pleases, every getUserMedia and addModule resolves.
NextOverlap ==
    \/ StartCall
    \/ StartRequestMicrophone
    \/ GetUserMediaResolves
    \/ AddModuleResolves
    \/ ConfigureUseWorklet
    \/ \E f \in BOOLEAN : OnStateChange(f)

SpecOverlap == Init /\ [][NextOverlap]_vars

\* A caller that waits for each start() before it calls start() again.
StartCallAlone == StartsInProgress = 0 /\ StartCall

\* The life cycle with one start() at a time: start() failing where it may,
\* stop() and destroy() at any moment.
NextOneCall ==
    \/ StartCallAlone
    \/ StartRequestMicrophone
    \/ GetUserMediaResolves
    \/ \E err \in MicErrors : GetUserMediaRejects(err)
    \/ GetUserMediaRetryResolves
    \/ GetUserMediaRetryRejects
    \/ AddModuleResolves
    \/ AddModuleRejects
    \/ Stop
    \/ DestroyCall
    \/ DestroyFinish

SpecOneCall == Init /\ [][NextOneCall]_vars

\* One start() at a time that nothing fails, and stop() at any moment.
NextStopDuringStart ==
    \/ StartCallAlone
    \/ StartRequestMicrophone
    \/ GetUserMediaResolves
    \/ AddModuleResolves
    \/ Stop
    \/ ConfigureUseWorklet

SpecStopDuringStart == Init /\ [][NextStopDuringStart]_vars

\* The life cycle with destroy().
NextDestroy ==
    \/ IOStartStop
    \/ DestroyCall
    \/ DestroyFinish

SpecDestroy == Init /\ [][NextDestroy]_vars

\* The life cycle under any configuration.
NextConfig ==
    \/ IOStartStop
    \/ ConfigureSampleRate
    \/ ConfigureBufferSize

SpecConfig == Init /\ [][NextConfig]_vars

\* The life cycle with the frames of both modes.
NextFrames ==
    \/ IOStartStop
    \/ \E f \in BOOLEAN : OnError(f)
    \/ \E f \in BOOLEAN : OnFrame(f)
    \/ \E f \in BOOLEAN : OnPitchDetected(f)
    \/ \E f \in BOOLEAN : OnWorkletPitchFrame(f)
    \/ \E n \in NodeIds : ScriptAudioProcess(n)
    \/ \E t \in BOOLEAN : FrameCallbackReturns(t)
    \/ \E m \in WorkletMessages : WorkletPosts(m)
    \/ WorkletMessageArrives

SpecFrames == Init /\ [][NextFrames]_vars

\* The audio loop.
InitLoop == IOParked /\ LoopInit /\ DspInit /\ AppParked

SpecLoop == InitLoop /\ [][LoopNext]_vars

(***************************************************************************)
(* The latency window over a long run of frames.  The worklet's frames     *)
(* arrive at FrameReceiveTime, each captured one millisecond earlier than  *)
(* the one before it, so that the samples of a window can be told apart:   *)
(* the k-th timed frame after start() has a latency of k milliseconds.     *)
(***************************************************************************)
MaxWindowFrames == 102
    \* timed frames delivered after one start()
FrameReceiveTime == 2000

\* The latency of the next timed frame.
NextLatency ==
    IF latencyMeasurements = <<>> THEN 1
    ELSE latencyMeasurements[Len(latencyMeasurements)] + 1

\* The worklet delivers a frame that carries its capture time.
TimedFrameArrives ==
    /\ NextLatency <= MaxWindowFrames
    /\ HandleWorkletPitchFrame(
           [id |-> 1, captureTime |-> FrameReceiveTime - NextLatency,
            enriched |-> FALSE],
           FrameReceiveTime)

\* The worklet delivers a frame without a capture time.
UntimedFrameArrives ==
    HandleWorkletPitchFrame([id |-> 2, captureTime |-> 0, enriched |-> FALSE],
                            FrameReceiveTime)

NextLatencyWindow ==
    \/ LoopStart
    \/ LoopStop
    \/ TimedFrameArrives
    \/ UntimedFrameArrives

InitLatencyWindow == IOParked /\ LoopParked /\ DspInit /\ AppParked

SpecLatencyWindow == InitLatencyWindow /\ [][NextLatencyWindow]_vars

(***************************************************************************)
(* getLatencyStats() (lines 227-259).  Here the window holds its samples   *)
(* in hundredths of a millisecond, and the statistics, which the code      *)
(* rounds to one decimal with toFixed(1), are in tenths of a millisecond.  *)
(***************************************************************************)
MaxStatsSamples == 5
    \* samples in the window getLatencyStats() is called on
SynthesisLatencyEstimate == 15
HundredthsPerMs == 100
TenthsPerMs == 10

\* The latencies a sample may have: 0.15 ms, 10 ms, 20 ms, 30 ms, 40 ms, 50 ms.
SampleValues == {15, 1000, 2000, 3000, 4000, 5000}

StatsWindows == UNION {[1..n -> SampleValues] : n \in 0..MaxStatsSamples}

\* [...].sort((a, b) => a - b): ascending, by insertion.
RECURSIVE InsertSorted(_, _)
InsertSorted(sorted, x) ==
    IF sorted = <<>> THEN <<x>>
    ELSE IF x <= Head(sorted) THEN <<x>> \o sorted
    ELSE <<Head(sorted)>> \o InsertSorted(Tail(sorted), x)

RECURSIVE SortAscending(_)
SortAscending(samples) ==
    IF samples = <<>> THEN <<>>
    ELSE InsertSorted(SortAscending(Tail(samples)), Head(samples))

\* sorted.reduce((a, b) => a + b, 0).
RECURSIVE SumOf(_)
SumOf(samples) ==
    IF samples = <<>> THEN 0 ELSE Head(samples) + SumOf(Tail(samples))

\* A percentile taken over the gaps between the samples.
PercentileIndexMutant(n, percent) == ((n - 1) * percent) \div 100

\* Math.floor(sorted.length * 0.5) and Math.floor(sorted.length * 0.95), as
\* an index from 0.
PercentileIndex(n, percent) == (n * percent) \div 100

\* toFixed(1) of a value halfway between two tenths depends on the double
\* that holds the value: a quarter or three quarters is held exactly and
\* goes up; any other half is held a little below or a little above, and
\* goes that way.  These are the halves the statistics of the windows of
\* StatsWindows come to (in hundredths, with what is added to them in
\* milliseconds) whose double lies below.
\* A rounding that leaves the synthesis estimate out.
ToFixed1Mutant(num, den, add) == (2 * num + 10 * den) \div (20 * den)

TiesHeldBelow ==
    {<<15, 0>>, <<1005, 0>>, <<1005, 15>>, <<1505, 0>>, <<1505, 15>>,
     <<2005, 15>>, <<2505, 15>>, <<3005, 15>>}

\* parseFloat((num / den + add).toFixed(1)), num / den in hundredths of a
\* millisecond and add in milliseconds; the result is in tenths.
ToFixed1(num, den, add) ==
    LET total == num + add * HundredthsPerMs * den
        down == total \div (10 * den)
        rest == total - 10 * den * down
    IN  IF 2 * rest < 10 * den THEN down
        ELSE IF 2 * rest > 10 * den THEN down + 1
        ELSE IF (num \div den) % 50 = 25 THEN down + 1
        ELSE IF <<num \div den, add>> \in TiesHeldBelow THEN down
        ELSE down + 1

\* An empty result that carries no figure at all.
NoMeasurementsMutant ==
    [count |-> 0,
     note |-> "No measurements yet. Start audio to measure latency."]

\* The result of getLatencyStats() on an empty window (lines 228-238).
NoMeasurements ==
    [min |-> 0, max |-> 0, avg |-> 0, p50 |-> 0, p95 |-> 0, count |-> 0,
     note |-> "No measurements yet. Start audio to measure latency."]

\* getLatencyStats() (lines 227-259).
GetLatencyStats(samples) ==
    IF samples = <<>>
    THEN NoMeasurements
    ELSE LET sorted == SortAscending(samples)
             n == Len(sorted)
             p50 == sorted[PercentileIndex(n, 50) + 1]
             p95 == sorted[PercentileIndex(n, 95) + 1]
         IN  [min |-> ToFixed1(sorted[1], 1, 0),
              max |-> ToFixed1(sorted[n], 1, 0),
              avg |-> ToFixed1(SumOf(sorted), n, 0),
              p50 |-> ToFixed1(p50, 1, 0),
              p95 |-> ToFixed1(p95, 1, 0),
              count |-> n,
              estimatedTotal |->
                  [min |-> ToFixed1(sorted[1], 1, SynthesisLatencyEstimate),
                   avg |-> ToFixed1(SumOf(sorted), n, SynthesisLatencyEstimate),
                   p95 |-> ToFixed1(p95, 1, SynthesisLatencyEstimate)],
              note |-> "Measured: Worklet→Main Thread. Estimated Total includes synthesis output (~15ms)."]

\* A call of getLatencyStats().
GetLatencyStatsCall ==
    /\ lastStats' = GetLatencyStats(latencyMeasurements)
    /\ lastHandler' = NoHandler
    /\ UNCHANGED <<loopIsRunning, latencyMeasurements, onStatsUpdate,
                   workletPitchFrameLogged, services, activeEngine>>
    /\ UNCHANGED <<ioVars, dspVars, appVars>>

\* A controller that has taken some frames since its start().
InitLatencyStats ==
    /\ IOParked
    /\ loopIsRunning = TRUE
    /\ latencyMeasurements \in StatsWindows
    /\ onStatsUpdate = FALSE
    /\ workletPitchFrameLogged = (latencyMeasurements # <<>>)
    /\ services = [visualizerManager |-> TRUE, pitchDetector |-> TRUE,
                   expressiveFeatures |-> TRUE, aiHarmonizer |-> "disabled"]
    /\ activeEngine = "frame"
    /\ lastHandler = NoHandler
    /\ lastStats = NoStats
    /\ DspInit /\ AppParked

NextLatencyStats ==
    \/ GetLatencyStatsCall
    \/ LoopStart
    \/ LoopStop

SpecLatencyStats == InitLatencyStats /\ [][NextLatencyStats]_vars

\* The onset detector on a stream of loudness readings.
InitOnset == IOParked /\ LoopParked /\ DspInit /\ AppParked

SpecOnset == InitOnset /\ [][OnsetFrameArrives]_vars

\* The pitch corrector on a stream of estimates.
NextCorrector ==
    \/ PitchEstimateArrives
    \/ \E root \in RootKeys, scale \in ScaleTypes : SetScale(root, scale)
    \/ ResetCorrection

InitCorrector == IOParked /\ LoopParked /\ DspInit /\ AppParked

SpecCorrector == InitCorrector /\ [][NextCorrector]_vars

\* The auto-tune configuration of a manager in continuous mode, and the
\* frames the engine processes between the calls.
NextAutoTune ==
    \/ \E c \in AutoTuneConfigs : SetAutoTuneConfig(c)
    \/ ProcessPitchFrame

InitAutoTune ==
    /\ IOParked /\ LoopParked /\ DspInit
    /\ SynthInit /\ synthEngines.legacy
    /\ QuantizeParked /\ ContainerParked /\ ServiceInit /\ ManagerInit

SpecAutoTune == InitAutoTune /\ [][NextAutoTune]_vars

\* The instrument and the mode of the manager.
NextInstrument ==
    \/ \E instrumentId \in InstrumentIds, threw \in BOOLEAN :
           SetInstrument(instrumentId, threw)
    \/ \E isContinuous \in BOOLEAN : SetMode(isContinuous)

InitInstrument ==
    /\ IOParked /\ LoopParked /\ DspInit
    /\ SynthInit
    /\ QuantizeParked /\ ContainerParked /\ ServiceInit /\ ManagerInit

SpecInstrument == InitInstrument /\ [][NextInstrument]_vars

\* init() and the auto-tune configuration.
NextTuneSync ==
    \/ \E threw \in BOOLEAN : SynthManagerInit(threw)
    \/ \E c \in AutoTuneConfigs : SetAutoTuneConfig(c)

\* A manager constructed with both engines.
InitTuneSync == InitAutoTune /\ synthEngines.continuous

SpecTuneSync == InitTuneSync /\ [][NextTuneSync]_vars

\* init(), the mode, the instrument and the effects.
NextEngineSync ==
    \/ \E threw \in BOOLEAN : SynthManagerInit(threw)
    \/ \E isContinuous \in BOOLEAN : SetMode(isContinuous)
    \/ \E instrumentId \in InstrumentIds, threw \in BOOLEAN :
           SetInstrument(instrumentId, threw)
    \/ \E amount \in Amounts : SetReverb(amount)
    \/ \E amount \in Amounts : SetDelay(amount)

\* A manager constructed with both engines.
InitEngineSync ==
    /\ InitInstrument
    /\ synthEngines = [continuous |-> TRUE, legacy |-> TRUE]

SpecEngineSync == InitEngineSync /\ [][NextEngineSync]_vars

\* getNearestScaleNote() on every input pitch, root key and scale tried.
InitQuantize ==
    /\ IOParked /\ LoopParked /\ DspInit
    /\ SynthParked /\ ContainerParked /\ ServiceInit /\ ManagerInit
    /\ QuantizeInit

SpecQuantize == InitQuantize /\ [][Quantize]_vars

\* get() on a container of three services, whatever they depend on.
NextContainer ==
    \E name \in ServiceNames, plan \in FactoryPlans : Get(name, plan)

InitContainer ==
    /\ IOParked /\ LoopParked /\ DspInit
    /\ SynthParked /\ QuantizeParked /\ ServiceInit /\ ManagerInit
    /\ ContainerInit

SpecContainer == InitContainer /\ [][NextContainer]_vars

\* The life cycle of AudioService: initialize(), start() and stop(), called
\* in any order and at any await.
NextService ==
    \/ ServiceInitialize
    \/ \E r \in InitRunIds : InitStageResolves(r)
    \/ \E r \in InitRunIds : InitStageRejects(r)
    \/ ServiceStart
    \/ ToneStartResolves
    \/ ToneStartRejects
    \/ AppStartResolves
    \/ AppStartRejects
    \/ \E threw \in BOOLEAN : ServiceStop(threw)

InitService ==
    /\ IOParked /\ LoopParked /\ DspInit
    /\ SynthParked /\ QuantizeParked /\ ContainerParked
    /\ ServiceInit /\ ManagerInit

SpecService == InitService /\ [][NextService]_vars

\* load() of the ConfigManager, one configuration after the other.
NextManager ==
    \E userConfig \in UserConfigs, preset \in Presets : Load(userConfig, preset)

InitManager ==
    /\ IOParked /\ LoopParked /\ DspInit
    /\ SynthParked /\ QuantizeParked /\ ContainerParked
    /\ ServiceInit /\ ManagerInit

SpecManager == InitManager /\ [][NextManager]_vars


(***************************************************************************)
(* Properties of AudioIO.                                                  *)
(***************************************************************************)

\* C1: a call of start() on a running engine returns without raising, opens
\* no second audio context, stream, source or processor node, starts no
\* request, and leaves isRunning, mode, stream and processorNode as they were.
C1_StartWhileRunningIsNoOp ==
    [][("start:called" \in evt' /\ isRunning)
           => /\ evt' = {"start:called", "start:returned", "warn:already-running"}
              /\ UNCHANGED <<ioFields, tracks, liveNodes, starting>>]_vars

C1_StartedWhileRunning ==
    /\ "warn:already-running" \in evt
    /\ isRunning
    /\ stream # Null
    /\ processorNode # Null

\* C2: when getUserMedia refuses the microphone or finds no device, start()
\* rejects, the error callback (if any) is called with type 'start', and the
\* engine is not running afterwards.
C2_SourceFailureLeavesStopped ==
    (evt \cap {"cause:NotAllowedError", "cause:NotFoundError"} # {})
        => /\ "start:rejected" \in evt
           /\ onErrorCallback => "onError:start" \in evt
           /\ ~isRunning

\* C3: in a browser without AudioWorklet, a start() whose microphone opens
\* resolves at once in mode 'script-processor', even when the configuration
\* asks for the worklet: it does not reject, calls no error callback and
\* never asks for the worklet module.
C3_FallbackWithoutWorklet ==
    (runtime = "noWorklet")
        => /\ "addModule:requested" \notin evt
           /\ "getUserMedia:resolved" \in evt
                  => /\ "start:resolved" \in evt
                     /\ "start:rejected" \notin evt
                     /\ "onError:start" \notin evt
                     /\ isRunning
                     /\ mode = "script-processor"

C3_FellBack ==
    /\ runtime = "noWorklet"
    /\ config.useWorklet
    /\ "start:resolved" \in evt
    /\ onErrorCallback
    /\ mode = "script-processor"

\* C4: while the engine stays running, from a successful start() to the
\* following stop(), its mode does not change.
C4_ModeFixedWhileRunning ==
    [][(isRunning /\ isRunning') => mode' = mode]_vars

\* C6: a call of stop() on an engine that is not running returns without
\* raising, changes no field, stops no track, disconnects no node and calls
\* no state callback.
C6_StopWhileStoppedIsNoOp ==
    [][("stop:called" \in evt' /\ ~isRunning)
           => /\ evt' = {"stop:called", "stop:returned", "warn:not-running"}
              /\ UNCHANGED <<ioFields, tracks, liveNodes, starting>>]_vars

C6_StoppedWhileStopped ==
    /\ "warn:not-running" \in evt
    /\ ~isRunning
    /\ onStateChangeCallback
    /\ isInitialized

\* C7 as stated: the engine is never running with a configuration that
\* _validateConfig() finds fault with.
C7_NeverRunningInvalid == isRunning => ValidConfig(config)

\* C7 as the code has it: configure() raises nothing for a configuration it
\* finds fault with; it stores it, logs one warning for each failed check and
\* for no other, and touches no field of the engine, running or not.
C7_ConfigureOnlyWarns ==
    [][("configure:returned" \in evt')
           => /\ ("warn:sampleRate" \in evt')
                     = (config'.sampleRate < MinSampleRate
                            \/ config'.sampleRate > MaxSampleRate)
              /\ ("warn:bufferSize" \in evt')
                     = (config'.bufferSize \notin ScriptBufferSizes)
              /\ ("warn:workletBufferSize" \in evt')
                     = (config'.workletBufferSize \notin WorkletBufferSizes)
              /\ evt' \subseteq {"configure:returned", "warn:sampleRate",
                                 "warn:bufferSize", "warn:workletBufferSize"}
              /\ UNCHANGED <<ioFields, tracks, liveNodes, starting>>]_vars

C7_RunningInvalid ==
    /\ isRunning
    /\ config.sampleRate > MaxSampleRate
    /\ config.bufferSize \notin ScriptBufferSizes

\* The frame callbacks of AudioIO.
Deliveries == {"deliver:onFrame", "deliver:onWorkletPitchFrame",
               "deliver:onPitchDetected"}

\* C5: no frame callback is called while the engine is not running, that is
\* from a stop() to the next start() that succeeds.
C5_NoFrameWhileStopped == (evt \cap Deliveries # {}) => isRunning

\* C8: the audio callback is never inside consumer code: it hands the frame
\* over and returns without waiting for the consumer.
C8_AudioCallbackNeverWaits == audioCallback = "idle"

(***************************************************************************)
(* Properties of AudioLoopController.                                      *)
(***************************************************************************)

\* The positions in calls of the calls of name.
CallsOf(calls, name) == {i \in DOMAIN calls : calls[i].call = name}

\* C9: a handler invoked while the controller is not running calls nothing
\* (no engine, visualizer, performance monitor or stats callback) and
\* records no latency sample.
C9_HandlersIdleWhenStopped ==
    [][(lastHandler'.name \in HandlerNames /\ ~loopIsRunning)
           => /\ lastHandler'.calls = <<>>
              /\ UNCHANGED <<loopIsRunning, latencyMeasurements, onStatsUpdate,
                             workletPitchFrameLogged>>]_vars

C9_HandledWhenStopped ==
    /\ ~loopIsRunning
    /\ lastHandler.name = "handleWorkletPitchFrame"
    /\ lastHandler.frame.captureTime # 0
    /\ activeEngine = "frame"
    /\ services.visualizerManager
    /\ onStatsUpdate

\* C10: handleWorkletPitchFrame on a running controller gives the frame to
\* the active engine exactly once, through processPitchFrame when the engine
\* has it and through processPitch when it has only that, and then updates
\* the visualizer exactly once with the same frame.
C10_FrameSynthesizedThenVisualized ==
    (lastHandler.name = "handleWorkletPitchFrame" /\ loopIsRunning)
        => LET calls == lastHandler.calls
               f == lastHandler.frame
               framed == CallsOf(calls, "processPitchFrame")
               legacy == CallsOf(calls, "processPitch")
               shown == CallsOf(calls, "update")
           IN  /\ activeEngine = "frame"
                      => Cardinality(framed) = 1 /\ legacy = {}
               /\ activeEngine = "legacy"
                      => Cardinality(legacy) = 1 /\ framed = {}
               /\ activeEngine \in {"none", "bare"}
                      => framed = {} /\ legacy = {}
               /\ \A i \in framed \cup legacy \cup shown : calls[i].frame = f
               /\ services.visualizerManager => Cardinality(shown) = 1
               /\ ~services.visualizerManager => shown = {}
               /\ \A i \in framed \cup legacy : \A j \in shown : i < j

C10_LegacyEngineThenVisualizer ==
    /\ lastHandler.name = "handleWorkletPitchFrame"
    /\ loopIsRunning
    /\ activeEngine = "legacy"
    /\ services.visualizerManager
    /\ CallsOf(lastHandler.calls, "processPitch") # {}
    /\ CallsOf(lastHandler.calls, "update") # {}

\* C11 as stated: every buffer onAudioProcess handles on a running controller
\* whose engine can take a frame gives that engine exactly one frame, a
\* buffer without a pitch included.
C11_OneFramePerBuffer ==
    (/\ lastHandler.name = "onAudioProcess"
     /\ loopIsRunning
     /\ services.pitchDetector
     /\ activeEngine \in {"frame", "legacy"})
        => Cardinality(CallsOf(lastHandler.calls, "processPitchFrame")
                           \cup CallsOf(lastHandler.calls, "processPitch")) = 1

\* C11 as the code has it: on a running controller, a buffer in which a
\* pitch is detected gives the engine exactly one frame (the enriched frame
\* through processPitchFrame, else the detected pitch through processPitch);
\* a buffer without a pitch, or a controller without a pitch detector, gives
\* the engine, the harmonizer, the visualizer and the stats callback nothing:
\* only the performance monitor is called.
C11_OneFramePerDetectedPitch ==
    (lastHandler.name = "onAudioProcess" /\ loopIsRunning)
        => LET calls == lastHandler.calls
               f == lastHandler.frame
               framed == CallsOf(calls, "processPitchFrame")
               legacy == CallsOf(calls, "processPitch")
           IN  IF services.pitchDetector /\ f # NoFrame
               THEN /\ activeEngine = "frame"
                          => /\ Cardinality(framed) = 1 /\ legacy = {}
                             /\ \A i \in framed : calls[i].frame \in {f, Enrich(f)}
                    /\ activeEngine = "legacy"
                          => /\ Cardinality(legacy) = 1 /\ framed = {}
                             /\ \A i \in legacy : calls[i].frame = f
                    /\ activeEngine \in {"none", "bare"}
                          => framed = {} /\ legacy = {}
               ELSE \A i \in DOMAIN calls :
                        calls[i].call \in {"startProcessing", "detect",
                                           "endProcessing", "updateFPS"}

C11_BufferWithoutPitch ==
    /\ lastHandler.name = "onAudioProcess"
    /\ loopIsRunning
    /\ services.pitchDetector
    /\ lastHandler.frame = NoFrame
    /\ activeEngine = "frame"
    /\ CallsOf(lastHandler.calls, "detect") # {}
    /\ CallsOf(lastHandler.calls, "processPitchFrame") = {}

\* C12: the latency window never holds more than LatencyWindow samples; its
\* samples are, oldest first, the latencies (receive time minus capture
\* time) of the latest timed frames handled since the last start(), the
\* newest being that of the last frame handled; start() empties it; and
\* nothing is missing from its front until it is full.
C12_WindowBoundedOldestEvicted ==
    LET w == latencyMeasurements
    IN  /\ Len(w) <= LatencyWindow
        /\ \A i \in 1..(Len(w) - 1) : w[i + 1] = w[i] + 1
        /\ (w # <<>> /\ Len(w) < LatencyWindow) => w[1] = 1
        /\ (/\ lastHandler.name = "handleWorkletPitchFrame"
            /\ loopIsRunning
            /\ lastHandler.frame.captureTime # 0)
               => /\ w # <<>>
                  /\ w[Len(w)] = FrameReceiveTime - lastHandler.frame.captureTime
        /\ (lastHandler.name = "handleWorkletPitchFrame" /\ ~loopIsRunning)
               => (w = <<>> \/ w[Len(w)] # FrameReceiveTime
                                             - lastHandler.frame.captureTime)

C12_OldestEvicted ==
    /\ Len(latencyMeasurements) = LatencyWindow
    /\ latencyMeasurements[1] = 2
    /\ latencyMeasurements[LatencyWindow] = LatencyWindow + 1
    /\ loopIsRunning

\* C13: getLatencyStats() on a window that holds exactly the samples 10, 20,
\* 30, 40 and 50 ms, in any order, returns min 10, max 50, avg 30, p50 30,
\* p95 50 and count 5.
C13_StatsOfTenToFifty ==
    (/\ lastStats # NoStats
     /\ Len(latencyMeasurements) = 5
     /\ {latencyMeasurements[i] : i \in 1..5}
            = {ms * HundredthsPerMs : ms \in {10, 20, 30, 40, 50}})
        => /\ lastStats.min = 10 * TenthsPerMs
           /\ lastStats.max = 50 * TenthsPerMs
           /\ lastStats.avg = 30 * TenthsPerMs
           /\ lastStats.p50 = 30 * TenthsPerMs
           /\ lastStats.p95 = 50 * TenthsPerMs
           /\ lastStats.count = 5

C13_StatsTakenOfTenToFifty ==
    /\ latencyMeasurements = <<3000, 1000, 5000, 2000, 4000>>
    /\ lastStats # NoStats
    /\ lastStats.count = 5

StatsTaken == lastStats # NoStats

MeasuredFields == {"min", "max", "avg", "p50", "p95"}

\* C14 as stated: on an empty window getLatencyStats() says that there is no
\* measurement yet and reports no measured figure (min, max, avg, p50, p95)
\* of zero.
C14_EmptyWindowReportsNoZero ==
    (StatsTaken /\ latencyMeasurements = <<>>)
        => /\ lastStats.note = "No measurements yet. Start audio to measure latency."
           /\ \A f \in MeasuredFields \cap DOMAIN lastStats : lastStats[f] # 0

\* C14: on an empty window getLatencyStats() returns min, max, avg, p50 and
\* p95 of zero with count 0, the note "No measurements yet. Start audio to
\* measure latency." and no estimated total; a result on a non-empty window
\* has a positive count and another note.
C14_EmptyWindowReportsZerosAndNote ==
    StatsTaken
        => IF latencyMeasurements = <<>>
           THEN /\ DOMAIN lastStats = MeasuredFields \cup {"count", "note"}
                /\ \A f \in MeasuredFields : lastStats[f] = 0
                /\ lastStats.count = 0
                /\ lastStats.note = "No measurements yet. Start audio to measure latency."
           ELSE /\ lastStats.count = Len(latencyMeasurements)
                /\ lastStats.count > 0
                /\ lastStats.note # "No measurements yet. Start audio to measure latency."

C14_StatsTakenOfEmptyWindow ==
    /\ latencyMeasurements = <<>>
    /\ StatsTaken
    /\ lastStats.count = 0

Smallest(samples) ==
    CHOOSE x \in {samples[i] : i \in 1..Len(samples)} :
        \A i \in 1..Len(samples) : x <= samples[i]

\* value, in tenths of a millisecond, is a rounding of num/den hundredths.
RoundsToTenth(value, num, den) ==
    /\ 10 * den * value - num <= 5 * den
    /\ num - 10 * den * value <= 5 * den

EstimateInHundredths == SynthesisLatencyEstimate * HundredthsPerMs

\* C15 as stated: on a non-empty window every field of the estimated total
\* equals the measured field of the same name plus 15 ms.
C15_EstimateIsMeasuredPlusEstimate ==
    (StatsTaken /\ latencyMeasurements # <<>>)
        => \A f \in {"min", "avg", "p95"} :
               lastStats.estimatedTotal[f]
                   = lastStats[f] + SynthesisLatencyEstimate * TenthsPerMs

\* C15: on a non-empty window the measured min and avg are the smallest
\* sample and the mean of the samples rounded to a tenth of a millisecond and
\* p95 is a sample so rounded; the estimated total is a field of its own
\* with min, avg and p95, each the unrounded figure plus 15 ms rounded to a
\* tenth on its own, so that it lies within a tenth of a millisecond of the
\* measured field plus 15 ms and never replaces it.
C15_EstimateKeptApartFromMeasured ==
    (StatsTaken /\ latencyMeasurements # <<>>)
        => LET w == latencyMeasurements
               n == Len(w)
               e == lastStats.estimatedTotal
           IN  /\ RoundsToTenth(lastStats.min, Smallest(w), 1)
               /\ RoundsToTenth(lastStats.avg, SumOf(w), n)
               /\ \E i \in 1..n : RoundsToTenth(lastStats.p95, w[i], 1)
               /\ DOMAIN e = {"min", "avg", "p95"}
               /\ RoundsToTenth(e.min, Smallest(w) + EstimateInHundredths, 1)
               /\ RoundsToTenth(e.avg, SumOf(w) + n * EstimateInHundredths, n)
               /\ \A f \in DOMAIN e :
                      e[f] - (lastStats[f] + SynthesisLatencyEstimate * TenthsPerMs)
                          \in {-1, 0, 1}

C15_EstimateOffByATenth ==
    /\ StatsTaken
    /\ latencyMeasurements # <<>>
    /\ lastStats.estimatedTotal.min
           = lastStats.min + SynthesisLatencyEstimate * TenthsPerMs + 1

(***************************************************************************)
(* Properties of the OnsetDetector.                                        *)
(***************************************************************************)
AllInBand(readings, from, to, band) ==
    \A i \in from..to : Band(readings[i]) = band

IsPrefix(s, t) ==
    /\ Len(s) <= Len(t)
    /\ \A i \in 1..Len(s) : s[i] = t[i]

FullCycle == <<"silence", "attack", "sustain", "release", "silence">>

C17_ReAttack ==
    [][(/\ onset.state # "silence"
        /\ heard' # heard
        /\ Band(heard[Len(heard)]) # "above"
        /\ Band(heard'[Len(heard')]) = "above")
           => onset'.state = "attack"]_vars

C17_ReAttackedFromRelease ==
    /\ Len(trail) >= 2
    /\ trail[Len(trail) - 1] = "release"
    /\ trail[Len(trail)] = "attack"
    /\ onset.state = "attack"

\* The number of readings within which a return to silence is looked for.
SilenceHorizon == 6

RECURSIVE ReachesSilence(_, _)
ReachesSilence(d, frames) ==
    \/ d.state = "silence"
    \/ /\ frames > 0
       /\ \E loudness \in LoudnessLevels :
              ReachesSilence(OnsetUpdate(d, loudness), frames - 1)

\* C18: the detector is in silence before its first reading, and from every
\* state it reaches some continuation of the loudness brings it back to
\* silence.
C18_StartsInSilenceAndCanReturn ==
    /\ heard = <<>> => onset.state = "silence"
    /\ ReachesSilence(onset, SilenceHorizon)

C18_AttackStalled ==
    /\ onset.state = "attack"
    /\ onset.last = "below"
    /\ Len(heard) = MaxOnsetFrames

(***************************************************************************)
(* Properties of the lock of the PitchCorrector.                           *)
(***************************************************************************)
\* The last step corrected a pitch while a note was locked.
CorrectedWhileLocked ==
    /\ prevLocked # NoNote
    /\ pitchInput.midiCents # NoPitch

NearestNow ==
    GetNearestScaleNote(pitchInput.midiCents, rootKey, scaleType).midi

InScale(note) ==
    \E i \in 1..Len(SCALES[scaleType]) :
        SCALES[scaleType][i] = (note - rootKey + 12) % 12

\* C19: an input pitch within 0.6 semitone of the locked note leaves
\* lockedNoteSemitone as it was, so a sequence of such inputs never changes
\* it.
C19_LockHeldWithinThreshold ==
    (CorrectedWhileLocked /\ Deviation(pitchInput, prevLocked) <= HysteresisCents)
        => lockedNoteSemitone = prevLocked

C19_LockHeldNearBoundary ==
    /\ CorrectedWhileLocked
    /\ Voiced(pitchInput)
    /\ Deviation(pitchInput, prevLocked) = HysteresisCents
    /\ NearestNow # prevLocked
    /\ lockedNoteSemitone = prevLocked

HoldsUpdate(tune) ==
    LET a == storeSynth.autoTune
        u == synthCall.updated
    IN  /\ ("enabled" \in u \/ "strength" \in u)
              => tune.strength = (IF a.enabled THEN a.strength ELSE 0)
        /\ "speed" \in u => tune.speed = a.speed
        /\ ("key" \in u \/ "scale" \in u)
              => (tune.key = a.key /\ tune.scale = a.scale)

C30_EngineErrorKeepsStore ==
    [][/\ (synthCall'.op = "setInstrument" /\ synthCall'.outcome = "caught")
             => storeSynth' = storeSynth
       /\ storeSynth'.instrument # storeSynth.instrument
             => /\ synthCall' = SynthCalled("setInstrument", {},
                                            storeSynth'.instrument, "returned")
                /\ HasActiveEngine
                      => engineInstrument'[synthActive] = storeSynth'.instrument
      ]_vars

\* The legacy engine has refused the cello: the store still says flute.
C30_CelloRefused ==
    /\ synthActive = "legacy"
    /\ synthCall = SynthCalled("setInstrument", {}, "cello", "caught")
    /\ storeSynth.instrument = "flute"
    /\ engineInstrument["legacy"] = "flute"

(***************************************************************************)
(* Properties of getNearestScaleNote().                                    *)
(***************************************************************************)
HasQuantized == quantized # NotQuantized

\* The chromatic semitone nearest to the input.
NearestSemi == RoundToSemitone(quantizeInput.cents)

\* The offset of a note from the root of the call, as a pitch class.
OffsetFromRoot(note) == (note - quantizeInput.root + 12) % 12

InScaleOfCall(note) ==
    \E i \in 1..Len(SCALES[quantizeInput.scale]) :
        SCALES[quantizeInput.scale][i] = OffsetFromRoot(note)

\* The distance of two notes as pitch classes, round the octave.
CircularDistance(a, b) ==
    LET up == (a - b + 120) % 12
    IN  IF up <= 12 - up THEN up ELSE 12 - up

\* The notes an octave around the nearest semitone.
NotesAround == (NearestSemi - 12)..(NearestSemi + 12)

\* C22: the note getNearestScaleNote() returns is in the scale (its
\* pitch-class offset from the root is one of the scale's intervals), and no
\* note of the scale is nearer, round the octave, to the chromatic semitone
\* nearest to the input.
C22_NearestNoteInScale ==
    HasQuantized
        => /\ InScaleOfCall(quantized.midi)
           /\ \A n \in NotesAround :
                  InScaleOfCall(n)
                      => CircularDistance(quantized.midi, NearestSemi)
                             <= CircularDistance(n, NearestSemi)

\* C#4 in D major pentatonic, eleven semitones above the root: the nearest
\* note of the scale is the root D4, one semitone up round the octave, and B3
\* is two semitones down.
C22_NearestAcrossTheRoot ==
    /\ quantizeInput = [cents |-> 6100, root |-> 2, scale |-> "pentatonic_major"]
    /\ quantized.midi = 62


\* The distance at which notes of the scale lie on both sides of the nearest
\* semitone and none lies nearer; 0 when there is no such tie.
TieDistance ==
    IF \E d \in 1..6 :
           /\ InScaleOfCall(NearestSemi - d) /\ InScaleOfCall(NearestSemi + d)
           /\ \A e \in 0..(d - 1) :
                  ~InScaleOfCall(NearestSemi - e) /\ ~InScaleOfCall(NearestSemi + e)
    THEN CHOOSE d \in 1..6 :
           /\ InScaleOfCall(NearestSemi - d) /\ InScaleOfCall(NearestSemi + d)
           /\ \A e \in 0..(d - 1) :
                  ~InScaleOfCall(NearestSemi - e) /\ ~InScaleOfCall(NearestSemi + e)
    ELSE 0

\* C23: when two notes of the scale are equally near to the chromatic
\* nearest semitone, the one with the lower note number is returned,
\* whatever the scale and the root key.
C23_TieGoesToLowerNote ==
    (HasQuantized /\ TieDistance # 0)
        => quantized.midi = NearestSemi - TieDistance


(***************************************************************************)
(* Properties of the callbacks of AudioIO.                                 *)
(***************************************************************************)
\* What the caller of stop() may observe of a stop() that went through.
StopOutcomes ==
    {"stop:called", "stop:done", "destroy:called", "onStateChange:stopped",
     "onStateChange:threw-caught"}

\* C24: whether a registered state or error callback returns or throws, the
\* caller of start() and stop() sees the same thing and the transition is
\* complete: a start() that notified 'started' resolves with AudioIO
\* running, a stop() that notified 'stopped' returns with every resource
\* released, and a start() that notified its error rejects with that error.
C24_CallbackThrowIsContained ==
    /\ "onStateChange:started" \in evt
          => /\ "start:resolved" \in evt /\ "start:rejected" \notin evt
             /\ isRunning /\ isInitialized
    /\ "onStateChange:stopped" \in evt
          => /\ "stop:done" \in evt /\ evt \subseteq StopOutcomes
             /\ ~isRunning /\ stream = Null /\ sourceNode = Null
             /\ processorNode = Null
    /\ "onError:start" \in evt
          => "start:rejected" \in evt /\ "start:resolved" \notin evt

\* A start() that resolves although the state callback threw.
C24_StartedCallbackThrew ==
    /\ "onStateChange:threw-caught" \in evt
    /\ "onStateChange:started" \in evt
    /\ "start:resolved" \in evt
    /\ isRunning


(***************************************************************************)
(* Properties of AppContainer.                                             *)
(***************************************************************************)
Singletons == {n \in ServiceNames : registry[n].singleton}

\* C25: the factory of a singleton is invoked at most once, whatever get()
\* calls are made.
C25_FactoryInvokedAtMostOnce ==
    \A n \in Singletons : factoryCalls[n] <= 1

\* C25, amended: once the factory of a singleton has returned an instance,
\* it is not invoked again and every get() of the service returns that
\* instance.
C25_CachedSingletonKept ==
    [][\A n \in Singletons :
          instance[n] # NullInstance
              => /\ factoryCalls'[n] = factoryCalls[n]
                 /\ instance'[n] = instance[n]
                 /\ lastGet'.name = n
                       => lastGet' = GetEnded(n, "returned", instance[n])]_vars

\* Service a asks for b.  The first get("a") created b and failed in the
\* factory of a; the second found b cached and created a.
C25_DependencyCreatedOnce ==
    /\ {"a", "b"} \subseteq Singletons
    /\ registry["a"].dep = "b"
    /\ factoryCalls["b"] = 1 /\ instance["b"] = 1
    /\ factoryCalls["a"] = 2 /\ instance["a"] = 2
    /\ lastGet = GetEnded("a", "returned", 2)

\* The service the factory of n asks for, k times over.
RECURSIVE Asked(_, _)
Asked(n, k) ==
    IF k = 0 \/ n = NoDependency THEN n ELSE Asked(registry[n].dep, k - 1)

\* Creating n asks for n again, through any number of services.
OnCycle(n) == \E k \in 1..Cardinality(ServiceNames) : Asked(n, k) = n

\* C26: a get() of a service whose creation asks for the same service again
\* ends with the error of a circular dependency, and no service on a cycle
\* is ever cached.
C26_CycleDetectedNothingCached ==
    /\ \A n \in ServiceNames : OnCycle(n) => instance[n] = NullInstance
    /\ (lastGet.name \in ServiceNames /\ OnCycle(lastGet.name))
          => lastGet = GetEnded(lastGet.name, "circular", NullInstance)

\* A cycle of three services, each factory entered once by get("a").
C26_CycleOfThree ==
    /\ registry["a"].dep = "b" /\ registry["b"].dep = "c"
    /\ registry["c"].dep = "a"
    /\ factoryCalls = [n \in ServiceNames |-> 1]
    /\ lastGet = GetEnded("a", "circular", NullInstance)


(***************************************************************************)
(* Properties of AudioService.                                             *)
(***************************************************************************)
\* The runs of _doInitialize() that have not settled.
RunsInFlight == {r \in InitRunIds : initRuns[r] \in InFlightStages}

\* C27: a call of initialize() made while an initialization is in flight
\* returns the promise of that run and starts no other, so that two runs are
\* never in flight together; a call made once the service is ready resolves
\* and starts no run either.
C27_InitializeIdempotent ==
    [][/\ Cardinality(RunsInFlight') <= 1
       /\ ServiceInitialize
             => /\ \A r \in RunsInFlight :
                       /\ lastSvc' = ServiceCalled("initialize", "pending", r)
                       /\ initRuns' = initRuns
                /\ (RunsInFlight = {} /\ svc.isReady)
                       => /\ lastSvc' = ServiceCalled("initialize", "resolved",
                                                      NoPromise)
                          /\ initRuns' = initRuns]_vars

\* A second run after the first one failed, joined by a further call at its
\* last await.
C27_JoinedSecondRun ==
    /\ initRuns[1] = "rejected" /\ initRuns[2] = "app"
    /\ lastSvc = ServiceCalled("initialize", "pending", 2)

\* C28: a start() of a service that is not ready rejects, calls no
\* window.app.start(), now or later, and leaves isPlaying false; so the
\* service never plays without being ready.
C28_StartNeedsReady ==
    [][/\ svc'.isPlaying => svc'.isReady
       /\ (ServiceStart /\ ~svc.isReady)
             => /\ lastSvc' = ServiceCalled("start", "rejected", NoPromise)
                /\ appStartCalls' = appStartCalls
                /\ starts' = starts
                /\ ~svc'.isPlaying]_vars

\* A start() refused after an initialization that failed.
C28_StartRefusedAfterFailure ==
    /\ initRuns[1] = "rejected"
    /\ ~svc.isReady
    /\ lastSvc = ServiceCalled("start", "rejected", NoPromise)
    /\ appStartCalls = 0


(***************************************************************************)
(* Properties of ConfigManager.                                            *)
(***************************************************************************)
\* The rules of the validation: the sample rate within 8000-96000 Hz, the
\* buffer and FFT sizes among the allowed powers of two, minFrequency below
\* maxFrequency, the clarity threshold within 0-1.
BreaksRule(c) ==
    \/ c.sampleRate < MinValidSampleRate \/ c.sampleRate > MaxValidSampleRate
    \/ c.bufferSize \notin ValidBufferSizes
    \/ c.fftSize \notin ValidFftSizes
    \/ c.minFrequency >= c.maxFrequency
    \/ c.clarityThreshold < 0 \/ c.clarityThreshold > 100

\* C29: a load() whose merged configuration breaks a rule of the validation
\* throws and stores nothing, the configuration loaded before staying
\* current.
C29_InvalidConfigRejected ==
    [][(lastLoad'.outcome # "none" /\ BreaksRule(lastLoad'.merged))
          => /\ lastLoad'.outcome = "threw"
             /\ managerConfig' = managerConfig]_vars


(***************************************************************************)
(* Properties of SynthManager.init().                                      *)
(***************************************************************************)
\* C31: once init() has run, the strength the continuous engine was last
\* sent is zero while the store says auto-tune is off, and the strength of
\* the store while it says auto-tune is on.
C31_EngineStrengthFollowsStore ==
    (synthReady /\ synthEngines.continuous)
        => engineTune.strength = (IF storeSynth.autoTune.enabled
                                  THEN storeSynth.autoTune.strength ELSE 0)

\* After init(), auto-tune has been switched on by an update that gives
\* `enabled` alone: the engine has the strength the store kept.
C31_EnabledRestoresStrength ==
    /\ synthReady /\ synthEngines.continuous
    /\ synthCall = SynthCalled("setAutoTuneConfig", {"enabled"}, "", "returned")
    /\ storeSynth.autoTune.enabled
    /\ storeSynth.autoTune.strength = 8
    /\ engineTune.strength = 8


(***************************************************************************)
(* Properties of the frame callbacks of AudioIO.                           *)
(***************************************************************************)
\* The deliveries of a frame to the consumer's frame callback.
FrameDeliveries == {"deliver:onFrame", "deliver:onWorkletPitchFrame"}

\* C32: an exception the frame callback throws does not leave AudioIO, in
\* either mode: the handler catches it and reports it through the error
\* callback, when one is registered, and the engine is running as before.
C32_FrameCallbackThrowContained ==
    /\ (evt \cap FrameDeliveries # {}) => "uncaught" \notin evt
    /\ "onFrame:threw-caught" \in evt
           => /\ isRunning
              /\ onErrorCallback => "onError:frame-processing" \in evt

(***************************************************************************)
(* Properties of overlapping calls of AudioIO.start().                     *)
(***************************************************************************)
\* The processor nodes that are set up and connected.
LiveNodes == {n \in NodeIds : liveNodes[n] # "free"}

\* C33: calls of start() that overlap acquire one microphone stream and set
\* up one processor node between them: never are two streams open, never
\* two nodes connected.
C33_OverlappingStartsAcquireOnce ==
    /\ Cardinality(tracks) <= 1
    /\ Cardinality(LiveNodes) <= 1

(***************************************************************************)
(* Properties of a start() that fails or is stopped.                       *)
(***************************************************************************)
\* Neither running nor starting.
AtRest == ~isRunning /\ StartsInProgress = 0

\* C34: a start() that fails leaves no microphone stream open: when the
\* engine is neither running nor starting, it holds no stream and none is
\* open, whether or not stop() or destroy() has been called since.
C34_FailedStartHoldsNoStream ==
    AtRest => (stream = Null /\ tracks = {})

\* C35: when stop() has been called while a start() was in progress and
\* both have completed, the engine is not running and holds no source.
C35_StopDuringStartWins ==
    (stoppedWhileStarting /\ StartsInProgress = 0)
        => (~isRunning /\ stream = Null /\ sourceNode = Null)

\* C36: with AudioWorklet supported and config.workletFallback true (as the
\* constructor sets it; nothing here changes it), a start() whose worklet
\* module fails to load is not rejected: it completes in the
\* 'script-processor' mode.
C36_WorkletFailureFallsBack ==
    "cause:addModule" \in evt
        => /\ "start:rejected" \notin evt
           /\ "start:resolved" \in evt
           /\ mode = "script-processor"
           /\ isRunning

(***************************************************************************)
(* The fields of AudioIO while running and once stopped.                   *)
(***************************************************************************)
\* stream, sourceNode and processorNode are all null.
HoldsNothing == stream = Null /\ sourceNode = Null /\ processorNode = Null

\* The steps of start() that assign one of the three.
AcquiringSteps == {"getUserMedia:resolved", "addModule:resolved"}

C38_FailedInitializationCleared ==
    /\ InitPending => initRuns[initPromise] \in InFlightStages
    /\ lastSvc.op = "initialize" => lastSvc.outcome # "rejected"
                                       \/ initPromise = NoPromise

(***************************************************************************)
(* The active engine of SynthManager against the store.                    *)
(***************************************************************************)
\* C39: once init() has run, the instrument, the reverb and the delay last
\* applied to the active engine are those of the store, whatever calls of
\* setMode, setInstrument, setReverb and setDelay have followed.
C39_ActiveEngineFollowsStore ==
    (synthReady /\ HasActiveEngine)
        => /\ engineInstrument[synthActive] = storeSynth.instrument
           /\ engineEffects[synthActive].reverb = storeSynth.reverbWet
           /\ engineEffects[synthActive].delay = storeSynth.delayWet

(***************************************************************************)
(* The creation marks of AppContainer.                                     *)
(***************************************************************************)
\* Creating n asks, directly or through other services, for a service that
\* is on a cycle.
ReachesCycle(n) ==
    \E k \in 0..Cardinality(ServiceNames) :
        Asked(n, k) \in ServiceNames /\ OnCycle(Asked(n, k))

\* C40: when no get() is in progress no service is marked as being created,
\* whether the creations before succeeded or failed; so a get() ends with
\* the error of a circular dependency only where the registrations do
\* contain a cycle.
C40_NoCreationMarkLeftBehind ==
    /\ creating = {}
    /\ lastGet.outcome = "circular" => ReachesCycle(lastGet.name)

\* The factory of a singleton without dependency has failed twice, in two
\* calls of get(): the second get() found no mark of the first.
C40_FactoryFailedTwice ==
    /\ lastGet.name \in ServiceNames
    /\ registry[lastGet.name] = [dep |-> NoDependency, singleton |-> TRUE]
    /\ lastGet.outcome = "factory error"
    /\ factoryCalls[lastGet.name] = 2
    /\ creating = {}

=============================================================================
